---------------------------- MODULE Spec2Model ----------------------------
(***************************************************************************)
(* A model of the M3L compiler front-end (crates/m3l-core): the line       *)
(* lexer, the token-driven parser state machine, the multi-file resolver   *)
(* and the circular-import detector.                                       *)
(*                                                                         *)
(* Source text is modelled one line at a time.  A line is a record whose   *)
(* `form` says which of the lexer's line patterns it matches and whose     *)
(* other fields are the pieces those patterns capture.  Option<T> values   *)
(* of the source are sequences of length at most one: <<>> is None and     *)
(* <<v>> is Some(v).                                                       *)
(***************************************************************************)
EXTENDS Integers, Sequences, FiniteSets, TLC

VARIABLES
    alphabet,   \* the lines the source text of this run is made of
    st,         \* parser.rs ParserState
    n,          \* number of lines of the text consumed so far
    last,       \* Option: the line consumed by the latest step
    result,     \* Option: the ParsedFile returned by parse_tokens
    scan,       \* the lexing and building of one attribute, character by character
    files,      \* resolver.rs resolve: the `files` argument
    project,    \* resolver.rs resolve: the `project` argument (an Option)
    pc,         \* resolver.rs resolve: position in the function body
    rs,         \* resolver.rs resolve: its local variables
    ast,        \* Option: the M3lAst returned by resolve
    validation  \* Option: validator.rs validate, its options and its result

parserVars   == <<alphabet, st, n, last, result, scan>>
resolverVars == <<files, project, pc, rs, ast, validation>>
vars         == <<alphabet, st, n, last, result, scan, files, project, pc, rs, ast,
                 validation>>

None == <<>>
Some(v) == <<v>>
IsSome(o) == o # <<>>
Unwrap(o) == o[1]

Last(s) == s[Len(s)]

(***************************************************************************)
(* Bounds of the model.                                                    *)
(***************************************************************************)
MaxLines == 4

(***************************************************************************)
(* catalogs.rs                                                             *)
(***************************************************************************)
KIND_SECTIONS == {"Lookup", "Rollup", "Computed", "Computed from Rollup"}

(***************************************************************************)
(* types.rs TokenData::default()                                           *)
(***************************************************************************)
DefaultTokenData ==
    [ name |-> None, is_directive |-> FALSE, kind_section |-> FALSE,
      attributes |-> <<>>, code_block |-> FALSE, inherits |-> <<>>,
      type_name |-> None, is_import |-> FALSE, import_path |-> None,
      key |-> None, value |-> None ]

(***************************************************************************)
(* types.rs Token.  Of the raw text of a line the token keeps what the     *)
(* parser reads from it: for a list item `- name: text`, whether the colon *)
(* is there and the trimmed text after it (the whole item without one).    *)
(***************************************************************************)
NoRaw == [colon |-> FALSE, text |-> ""]

MkToken(tt, ln, data) ==
    [token_type |-> tt, line |-> ln, data |-> data, raw |-> NoRaw]

(***************************************************************************)
(* lexer.rs parse_namespace: the content of an H1 heading.  `line.ns` is   *)
(* whether the content matches RE_NAMESPACE (`Namespace: X`), `line.text`  *)
(* is X when it does and the whole content when it does not.               *)
(***************************************************************************)
parse_namespace(line) ==
    IF line.ns
    THEN [DefaultTokenData EXCEPT !.name = Some(line.text), !.is_directive = TRUE]
    ELSE [DefaultTokenData EXCEPT !.name = Some(line.text)]

(***************************************************************************)
(* lexer.rs tokenize_h2: `## Name [::type] [: Parents]`.                   *)
(***************************************************************************)
tokenize_h2(line, ln) ==
    LET data == [DefaultTokenData EXCEPT !.name = Some(line.name),
                                         !.inherits = line.inherits]
        tt == CASE line.type = "attribute" -> "AttributeDef"
                [] line.type = "enum"      -> "Enum"
                [] line.type = "interface" -> "Interface"
                [] line.type = "view"      -> "View"
                [] OTHER                   -> "Model"
    IN MkToken(tt, ln, data)

(***************************************************************************)
(* lexer.rs parse_field_line: a top-level list item.  The decoded pieces   *)
(* (name, type, attributes) are carried by the line; a line starting with  *)
(* `@` is a directive and keeps only its attributes.  `code_block` is      *)
(* whether a fenced block follows the line (the lexer attaches it to the   *)
(* preceding Field or Section token).                                      *)
(***************************************************************************)
parse_field_line(line) ==
    IF line.directive
    THEN [DefaultTokenData EXCEPT !.is_directive = TRUE,
                                  !.attributes = line.attributes]
    ELSE [DefaultTokenData EXCEPT !.name = Some(line.name),
                                  !.type_name = line.type_name,
                                  !.attributes = line.attributes]

(***************************************************************************)
(* lexer.rs parse_nested_item: a list item indented by two or more         *)
(* columns.  A line `key: value` (RE_NESTED_KV) gives key and value; the   *)
(* value is carried as its text together with what parse_type_and_attrs    *)
(* decodes from it (type_name, attributes) and whether it holds a colon.   *)
(* The name is the one parse_field_line finds, the key for such a line.    *)
(***************************************************************************)
parse_nested_item(line) ==
    IF IsSome(line.key)
    THEN [DefaultTokenData EXCEPT !.key = line.key, !.value = Some(line.value),
                                  !.name = line.key]
    ELSE [DefaultTokenData EXCEPT !.name = Some(line.text)]

\* lexer.rs parse_type_and_attrs, on the value of a nested item
parse_type_and_attrs(value, data) ==
    [data EXCEPT !.type_name = value.type_name, !.attributes = value.attributes]

(***************************************************************************)
(* lexer.rs lex: the classification of one line (first match wins).        *)
(***************************************************************************)
lex(line, ln) ==
    CASE line.form = "blank" -> MkToken("Blank", ln, DefaultTokenData)
      [] line.form = "hr"    -> MkToken("HorizontalRule", ln, DefaultTokenData)
      [] line.form = "h3"    ->
            MkToken("Section", ln,
                    [DefaultTokenData EXCEPT
                        !.kind_section = (line.name \in KIND_SECTIONS),
                        !.name = Some(line.name),
                        !.code_block = line.code_block])
      [] line.form = "h2"    -> tokenize_h2(line, ln)
      [] line.form = "h1"    -> MkToken("Namespace", ln, parse_namespace(line))
      [] line.form = "blockquote" ->
            MkToken("Blockquote", ln,
                    [DefaultTokenData EXCEPT !.name = Some(line.text)])
      [] line.form = "field" ->
            [MkToken("Field", ln,
                     [parse_field_line(line) EXCEPT !.code_block = line.code_block])
                EXCEPT !.raw = line.raw]
      [] line.form = "nested" -> MkToken("NestedItem", ln, parse_nested_item(line))
      [] line.form = "import" ->
            MkToken("Text", ln,
                    [DefaultTokenData EXCEPT !.is_import = TRUE,
                                             !.import_path = Some(line.path),
                                             !.name = Some(line.path)])
      [] OTHER ->
            MkToken("Text", ln, [DefaultTokenData EXCEPT !.name = Some(line.text)])


(***************************************************************************)
(* parser.rs parse_raw_attributes.  A raw attribute is [name, args]; an    *)
(* argument is [t, v] with t one of "String", "Number", "Bool"             *)
(* (AttrArgValue).  An empty argument list becomes None.                   *)
(***************************************************************************)
STANDARD_ATTRIBUTES ==
    { "primary", "unique", "required", "index", "generated", "immutable",
      "reference", "fk", "relation", "on_update", "on_delete", "searchable",
      "description", "visibility", "min", "max", "validate", "not_null",
      "computed", "computed_raw", "lookup", "rollup", "from", "persisted",
      "public", "private", "materialized", "meta", "behavior", "override",
      "default_attribute" }

parse_raw_attributes(raw_attrs) ==
    [ i \in 1..Len(raw_attrs) |->
        [ name |-> raw_attrs[i].name,
          args |-> IF Len(raw_attrs[i].args) = 0 THEN None
                   ELSE Some(raw_attrs[i].args),
          is_standard |-> IF raw_attrs[i].name \in STANDARD_ATTRIBUTES
                          THEN Some(TRUE) ELSE None,
          is_registered |-> None ] ]

(***************************************************************************)
(* parser.rs parse_tokens: the ParserState before the first token.         *)
(***************************************************************************)
NoElement == [tag |-> "None"]

InitParserState(file) ==
    [ file |-> file, namespace |-> None, current_element |-> NoElement,
      current_section |-> None, current_kind |-> "Stored",
      last_field_idx |-> None, models |-> <<>>, enums |-> <<>>,
      interfaces |-> <<>>, views |-> <<>>, attribute_registry |-> <<>>,
      current_attr_def |-> None, source_directives_done |-> FALSE,
      imports |-> <<>> ]

DefaultSections ==
    [indexes |-> <<>>, relations |-> <<>>, behaviors |-> <<>>,
     metadata |-> {}, custom |-> <<>>]

NewModelNode(tok, s, model_type, inherits, attributes) ==
    [ name |-> IF IsSome(tok.data.name) THEN Unwrap(tok.data.name) ELSE "",
      model_type |-> model_type, source |-> s.file, line |-> tok.line,
      inherits |-> inherits, description |-> None,
      attributes |-> attributes, fields |-> <<>>,
      sections |-> DefaultSections, source_def |-> None, refresh |-> None,
      loc |-> [file |-> s.file, line |-> tok.line] ]

(***************************************************************************)
(* parser.rs finalize_attr_def / finalize_element                          *)
(***************************************************************************)
\* The texts of the inputs that finalize_attr_def parses into a range: the
\* brackets are trimmed, the rest is split at ".." or at "," and both parts
\* parse as numbers.  No other text of the inputs does.
RANGE_TEXTS ==
    { <<"[1, 10]", <<1, 10>> >>, <<"1..10", <<1, 10>> >>, <<"[0, 5]", <<0, 5>> >> }

parse_range(text) ==
    IF \E r \in RANGE_TEXTS : r[1] = text
    THEN Some((CHOOSE r \in RANGE_TEXTS : r[1] = text)[2])
    ELSE None

finalize_attr_def(s) ==
    IF IsSome(s.current_attr_def)
    THEN LET attr_def == Unwrap(s.current_attr_def)
             get(key) == IF key \in DOMAIN attr_def.fields
                         THEN Some(attr_def.fields[key]) ELSE None
         IN [s EXCEPT !.current_attr_def = None,
                      !.attribute_registry =
                        Append(@, [name |-> attr_def.name,
                                   description |-> attr_def.description,
                                   attr_type |-> IF IsSome(get("type"))
                                                 THEN Unwrap(get("type"))
                                                 ELSE "boolean",
                                   range |-> IF IsSome(get("range"))
                                             THEN parse_range(Unwrap(get("range")))
                                             ELSE None])]
    ELSE s

\* a variant that leaves the finalized element in place
finalize_element_keeping_current(s0) ==
    LET s  == finalize_attr_def(s0)
        el == s.current_element
        s1 == CASE el.tag = "Enum" -> [s EXCEPT !.enums = Append(@, el.en)]
                [] el.tag = "Model" /\ el.model.model_type = "Interface" ->
                        [s EXCEPT !.interfaces = Append(@, el.model)]
                [] el.tag = "Model" /\ el.model.model_type = "View" ->
                        [s EXCEPT !.views = Append(@, el.model)]
                [] el.tag = "Model" -> [s EXCEPT !.models = Append(@, el.model)]
                [] OTHER -> s
    IN [s1 EXCEPT !.current_section = None,
                  !.current_kind = "Stored", !.last_field_idx = None]

\* a variant that leaves a pending attribute definition pending
finalize_element_keeping_attr_def(s0) ==
    LET el == s0.current_element
        s1 == CASE el.tag = "Enum" -> [s0 EXCEPT !.enums = Append(@, el.en)]
                [] el.tag = "Model" /\ el.model.model_type = "Interface" ->
                        [s0 EXCEPT !.interfaces = Append(@, el.model)]
                [] el.tag = "Model" /\ el.model.model_type = "View" ->
                        [s0 EXCEPT !.views = Append(@, el.model)]
                [] el.tag = "Model" -> [s0 EXCEPT !.models = Append(@, el.model)]
                [] OTHER -> s0
    IN [s1 EXCEPT !.current_element = NoElement, !.current_section = None,
                  !.current_kind = "Stored", !.last_field_idx = None]

finalize_element(s0) ==
    LET s  == finalize_attr_def(s0)
        el == s.current_element
        s1 == CASE el.tag = "Enum" -> [s EXCEPT !.enums = Append(@, el.en)]
                [] el.tag = "Model" /\ el.model.model_type = "Interface" ->
                        [s EXCEPT !.interfaces = Append(@, el.model)]
                [] el.tag = "Model" /\ el.model.model_type = "View" ->
                        [s EXCEPT !.views = Append(@, el.model)]
                [] el.tag = "Model" -> [s EXCEPT !.models = Append(@, el.model)]
                [] OTHER -> s
    IN [s1 EXCEPT !.current_element = NoElement, !.current_section = None,
                  !.current_kind = "Stored", !.last_field_idx = None]

(***************************************************************************)
(* parser.rs handle_namespace                                              *)
(***************************************************************************)
handle_namespace(tok, s) ==
    IF s.current_element.tag = "None"
    THEN [s EXCEPT !.namespace = tok.data.name]
    ELSE s

(***************************************************************************)
(* parser.rs handle_model_start / handle_enum_start / handle_view_start /  *)
(* handle_attribute_def_start                                              *)
(***************************************************************************)
\* a variant that carries the default kind of the previous element over
handle_model_start_keeping_kind(tok, s0) ==
    LET s == finalize_element(s0)
        model_type == IF tok.token_type = "Interface" THEN "Interface" ELSE "Model"
        model == NewModelNode(tok, s, model_type, tok.data.inherits,
                              parse_raw_attributes(tok.data.attributes))
    IN [s EXCEPT !.current_element = [tag |-> "Model", model |-> model],
                 !.current_section = None, !.current_kind = s0.current_kind,
                 !.last_field_idx = None, !.source_directives_done = FALSE]

handle_model_start(tok, s0) ==
    LET s == finalize_element(s0)
        model_type == IF tok.token_type = "Interface" THEN "Interface" ELSE "Model"
        model == NewModelNode(tok, s, model_type, tok.data.inherits,
                              parse_raw_attributes(tok.data.attributes))
    IN [s EXCEPT !.current_element = [tag |-> "Model", model |-> model],
                 !.current_section = None, !.current_kind = "Stored",
                 !.last_field_idx = None, !.source_directives_done = FALSE]

handle_enum_start(tok, s0) ==
    LET s == finalize_element(s0)
        en == [ name |-> IF IsSome(tok.data.name) THEN Unwrap(tok.data.name) ELSE "",
                source |-> s.file, line |-> tok.line,
                inherits |-> tok.data.inherits, description |-> None,
                values |-> <<>>, loc |-> [file |-> s.file, line |-> tok.line] ]
    IN [s EXCEPT !.current_element = [tag |-> "Enum", en |-> en],
                 !.current_section = None, !.current_kind = "Stored",
                 !.last_field_idx = None]

handle_view_start(tok, s0) ==
    LET s == finalize_element(s0)
        view == NewModelNode(tok, s, "View", <<>>, <<>>)
    IN [s EXCEPT !.current_element = [tag |-> "Model", model |-> view],
                 !.current_section = None, !.current_kind = "Stored",
                 !.last_field_idx = None, !.source_directives_done = FALSE]

handle_attribute_def_start(tok, s0) ==
    LET s == finalize_element(s0)
    IN [s EXCEPT !.current_attr_def =
            Some([name |-> IF IsSome(tok.data.name) THEN Unwrap(tok.data.name) ELSE "",
                  description |-> None, fields |-> <<>>])]

(***************************************************************************)
(* parser.rs handle_section                                                *)
(***************************************************************************)
EmptySourceDef ==
    [from |-> None, joins |-> <<>>, where_clause |-> None, order_by |-> None,
     group_by |-> None, raw_sql |-> None]

handle_section(tok, s) ==
    LET section_name == IF IsSome(tok.data.name) THEN Unwrap(tok.data.name) ELSE ""
    IN  IF tok.data.kind_section
        THEN IF s.current_element.tag = "None"
             THEN s
             ELSE [s EXCEPT
                     !.current_kind =
                        CASE section_name \in {"Lookup"} -> "Lookup"
                          [] section_name \in {"Rollup"} -> "Rollup"
                          [] section_name \in {"Computed", "Computed from Rollup"}
                                -> "Computed"
                          [] OTHER -> @,
                     !.current_section = None,
                     !.last_field_idx = None]
        ELSE LET s1 == [s EXCEPT !.current_section = Some(section_name),
                                 !.last_field_idx = None]
             IN IF /\ section_name = "Source"
                   /\ s1.current_element.tag = "Model"
                   /\ s1.current_element.model.model_type = "View"
                THEN LET m  == s1.current_element.model
                         sd == IF IsSome(m.source_def) THEN Unwrap(m.source_def)
                                                       ELSE EmptySourceDef
                         m1 == IF tok.data.code_block
                               THEN [m EXCEPT !.source_def =
                                        Some([sd EXCEPT !.raw_sql = Some("code")])]
                               ELSE m
                     IN [s1 EXCEPT !.source_directives_done = FALSE,
                                   !.current_element.model = m1]
                ELSE s1

(***************************************************************************)
(* Strings with dots.  A string is atomic here, so `split('.')`, `find`    *)
(* and `rfind` of '.' are computed from the segments of the dotted strings *)
(* the inputs are written with; any other string of the inputs has no dot. *)
(***************************************************************************)
RECURSIVE join_dots(_)
join_dots(segs) ==
    IF Len(segs) = 1 THEN segs[1]
    ELSE segs[1] \o "." \o join_dots(Tail(segs))

RECURSIVE Suffixes(_)
Suffixes(segs) ==
    IF Len(segs) <= 1 THEN {segs} ELSE {segs} \cup Suffixes(Tail(segs))

LookupPaths ==
    { <<"fk", "name">>, <<"fk", "B", "name">>, <<"fk", "B", "C", "name">>,
      <<"fk", "B", "C", "D", "name">> }

RollupTargets ==
    { <<"Order", "customer_id">>, <<"B", "fk">>, <<"B", "fk", "id">>,
      <<"V", "fk">>, <<"I", "fk">>, <<"Z", "fk">> }

QualifiedTypes ==
    { <<"Auth", "B">>, <<"Auth", "E">>, <<"Auth", "I">>, <<"Auth", "V">>,
      <<"Auth", "Z">>, <<"Auth", "string">>, <<"Auth", "sales", "B">> }

DottedStrings ==
    UNION {Suffixes(segs) \ {<<w>> : w \in {segs[i] : i \in 1..Len(segs)}} :
            segs \in LookupPaths \cup RollupTargets \cup QualifiedTypes}

\* s.split('.')
split_dots(s) ==
    IF \E segs \in DottedStrings : join_dots(segs) = s
    THEN CHOOSE segs \in DottedStrings : join_dots(segs) = s
    ELSE <<s>>

(***************************************************************************)
(* parser.rs build_field_node                                              *)
(***************************************************************************)
FindAttr(attrs, name) ==
    LET hits == {i \in 1..Len(attrs) : attrs[i].name = name}
    IN IF hits = {} THEN None
       ELSE Some(attrs[CHOOSE i \in hits : \A j \in hits : i <= j])

\* attr.args.as_ref().and_then(|a| a.first()), when it is an AttrArgValue::String
FirstStringArg(attr) ==
    IF IsSome(attr.args) /\ Unwrap(attr.args)[1].t = "String"
    THEN Some(Unwrap(attr.args)[1].v) ELSE None

FieldKindOf(current_kind, lookup_attr, rollup_attr, computed_attr, computed_raw_attr) ==
    IF IsSome(lookup_attr) THEN "Lookup"
    ELSE IF IsSome(rollup_attr) THEN "Rollup"
    ELSE IF IsSome(computed_attr) \/ IsSome(computed_raw_attr) THEN "Computed"
    ELSE current_kind

LookupOf(lookup_attr) ==
    IF IsSome(lookup_attr) /\ IsSome(FirstStringArg(Unwrap(lookup_attr)))
    THEN Some([path |-> Unwrap(FirstStringArg(Unwrap(lookup_attr)))])
    ELSE None

\* parser.rs parse_rollup_args.  The arguments are joined with ", " and split
\* again at the commas (split_rollup_args): with arguments that hold no
\* comma, quote or parenthesis the parts are the non-empty arguments.  The
\* first part is cut at its first dot into target and fk; the second part
\* is the aggregate.
parse_rollup_args(args) ==
    LET parts == SelectSeq([i \in 1..Len(args) |-> args[i].v],
                           LAMBDA part : part # "")
        target_fk == IF parts = <<>> THEN <<"">> ELSE split_dots(parts[1])
    IN [ target |-> target_fk[1],
         fk |-> IF Len(target_fk) > 1 THEN join_dots(Tail(target_fk)) ELSE "",
         aggregate |-> IF Len(parts) > 1 THEN parts[2] ELSE "" ]

RollupOf(rollup_attr) ==
    IF IsSome(rollup_attr) /\ IsSome(Unwrap(rollup_attr).args)
    THEN Some(parse_rollup_args(Unwrap(Unwrap(rollup_attr).args)))
    ELSE None

ComputedOf(computed_attr, computed_raw_attr, code_block) ==
    LET c1 == IF IsSome(computed_attr) /\ IsSome(FirstStringArg(Unwrap(computed_attr)))
              THEN Some([expression |-> Unwrap(FirstStringArg(Unwrap(computed_attr))),
                         from |-> "computed"])
              ELSE None
        c2 == IF IsSome(computed_raw_attr)
                 /\ IsSome(FirstStringArg(Unwrap(computed_raw_attr)))
              THEN Some([expression |->
                            Unwrap(FirstStringArg(Unwrap(computed_raw_attr))),
                         from |-> "computed_raw"])
              ELSE c1
    IN IF c2 = None /\ code_block
                    /\ (IsSome(computed_attr) \/ IsSome(computed_raw_attr))
       THEN Some([expression |-> "code", from |-> "code_block"])
       ELSE c2

build_field_node(data, tok, file, current_kind) ==
    LET attrs == parse_raw_attributes(data.attributes)
        lookup_attr == FindAttr(attrs, "lookup")
        rollup_attr == FindAttr(attrs, "rollup")
        computed_attr == FindAttr(attrs, "computed")
        computed_raw_attr == FindAttr(attrs, "computed_raw")
    IN [ name |-> IF IsSome(data.name) THEN Unwrap(data.name) ELSE "",
         field_type |-> data.type_name,
         kind |-> FieldKindOf(current_kind, lookup_attr, rollup_attr,
                              computed_attr, computed_raw_attr),
         attributes |-> attrs,
         lookup |-> LookupOf(lookup_attr),
         rollup |-> RollupOf(rollup_attr),
         computed |-> ComputedOf(computed_attr, computed_raw_attr, data.code_block),
         description |-> None, enum_values |-> None, fields |-> None,
         loc |-> [file |-> file, line |-> tok.line] ]

(***************************************************************************)
(* parser.rs handle_directive: `- @index(..)`, `- @relation(..)`, ...      *)
(***************************************************************************)
handle_directive(data, tok, file, model) ==
    IF Len(data.attributes) = 0 THEN model
    ELSE LET attr == data.attributes[1]
         IN CASE attr.name \in {"index", "unique"} ->
                    [model EXCEPT !.sections.indexes = Append(@, attr.name)]
              [] attr.name = "relation" ->
                    [model EXCEPT !.sections.relations =
                        Append(@, [type |-> Some("directive"),
                                   raw |-> Some(tok.raw.text), from |-> None,
                                   loc |-> Some([file |-> file,
                                                 line |-> tok.line])])]
              [] attr.name = "behavior" ->
                    [model EXCEPT !.sections.behaviors = Append(@, attr.name)]
              [] OTHER ->
                    [model EXCEPT !.sections.custom =
                        Append(@, [section |-> attr.name, name |-> attr.name])]

(***************************************************************************)
(* parser.rs is_source_directive / set_source_directive                    *)
(***************************************************************************)
\* a variant that knows fewer directive names
is_source_directive_from_join(name) == name \in {"from", "join"}

is_source_directive(name) ==
    name \in {"from", "where", "order_by", "group_by", "join"}

set_source_directive(def, data) ==
    LET name  == IF IsSome(data.name) THEN Unwrap(data.name) ELSE ""
        value == IF IsSome(data.type_name) THEN Unwrap(data.type_name) ELSE ""
    IN CASE name = "from"     -> [def EXCEPT !.from = Some(value)]
         [] name = "where"    -> [def EXCEPT !.where_clause = Some(value)]
         [] name = "order_by" -> [def EXCEPT !.order_by = Some(value)]
         [] name = "group_by" -> [def EXCEPT !.group_by = Some(value)]
         [] name = "join"     -> [def EXCEPT !.joins = Append(@, value)]
         [] OTHER             -> def

\* usize::MAX, the sentinel of handle_section_item, at the width TLC's integers have
USIZE_MAX == 2147483647

(***************************************************************************)
(* parser.rs handle_section_item: a field line inside a `### Section`.     *)
(* The result is the ParserState with the current model, last_field_idx    *)
(* and source_directives_done updated.                                     *)
(***************************************************************************)
handle_section_item(data, tok, section, s) ==
    LET model == s.current_element.model
        name  == IF IsSome(data.name) THEN Unwrap(data.name) ELSE ""
        isView == model.model_type = "View"
    IN CASE section = "Source" /\ isView ->
              IF is_source_directive(name) /\ ~s.source_directives_done
              THEN LET sd == IF IsSome(model.source_def)
                             THEN Unwrap(model.source_def) ELSE EmptySourceDef
                   IN [s EXCEPT !.current_element.model.source_def =
                                    Some(set_source_directive(sd, data))]
              ELSE LET field == build_field_node(data, tok, s.file, s.current_kind)
                   IN [s EXCEPT !.source_directives_done = TRUE,
                                !.current_element.model.fields = Append(@, field),
                                !.last_field_idx = Some(Len(model.fields))]
         [] section = "Refresh" /\ isView ->
              LET refresh == IF IsSome(model.refresh) THEN Unwrap(model.refresh)
                             ELSE [strategy |-> "", interval |-> None]
                  tn == IF IsSome(data.type_name) THEN Unwrap(data.type_name) ELSE ""
                  r1 == CASE name = "strategy" -> [refresh EXCEPT !.strategy = tn]
                          [] name = "interval" -> [refresh EXCEPT !.interval = Some(tn)]
                          [] OTHER -> refresh
              IN [s EXCEPT !.current_element.model.refresh = Some(r1)]
         [] section = "Indexes" ->
              [s EXCEPT !.current_element.model.sections.indexes = Append(@, name),
                        !.last_field_idx = Some(USIZE_MAX)]
         [] section = "Relations" ->
              [s EXCEPT !.current_element.model.sections.relations =
                            Append(@, [type |-> None, raw |-> Some(tok.raw.text),
                                       from |-> None,
                                       loc |-> Some([file |-> s.file,
                                                     line |-> tok.line])]),
                        !.last_field_idx = Some(USIZE_MAX)]
         [] section = "Metadata" ->
              [s EXCEPT !.current_element.model.sections.metadata = @ \cup {name}]
         [] section = "Behaviors" ->
              [s EXCEPT !.current_element.model.sections.behaviors = Append(@, name)]
         [] OTHER ->
              [s EXCEPT !.current_element.model.sections.custom =
                            Append(@, [section |-> section, name |-> name]),
                        !.last_field_idx = None]

(***************************************************************************)
(* parser.rs handle_field                                                  *)
(***************************************************************************)
handle_field(tok, s) ==
    LET data == tok.data
        name == IF IsSome(data.name) THEN Unwrap(data.name) ELSE ""
        el   == s.current_element
    IN IF IsSome(s.current_attr_def)
       THEN IF tok.raw.colon
            THEN [s EXCEPT !.current_attr_def =
                    Some([Unwrap(s.current_attr_def) EXCEPT
                            !.fields = (name :> tok.raw.text) @@ @])]
            ELSE s
       ELSE CASE el.tag = "None" -> s
              [] el.tag = "Enum" ->
                    [s EXCEPT !.current_element.en.values = Append(@, name)]
              [] OTHER ->
                    IF data.is_directive
                    THEN [s EXCEPT !.current_element.model =
                                        handle_directive(data, tok, s.file,
                                                         el.model)]
                    ELSE IF IsSome(s.current_section)
                    THEN handle_section_item(data, tok, Unwrap(s.current_section), s)
                    ELSE LET field == build_field_node(data, tok, s.file,
                                                       s.current_kind)
                         IN [s EXCEPT
                                !.current_element.model.fields = Append(@, field),
                                !.last_field_idx = Some(Len(el.model.fields))]

(***************************************************************************)
(* parser.rs parse_arg_value and apply_extended_attribute.  The values of  *)
(* the inputs are neither numbers nor quoted, and types are written        *)
(* without the `?` and `[]` suffixes; the description is not kept.         *)
(***************************************************************************)
parse_arg_value(text) ==
    IF text \in {"true", "false"} THEN [t |-> "Bool", v |-> text]
    ELSE [t |-> "String", v |-> text]

apply_extended_attribute(field, key, value) ==
    CASE key = "type" -> [field EXCEPT !.field_type = Some(value.text)]
      [] key = "description" -> [field EXCEPT !.description = Some(value.text)]
      [] key \in {"reference", "on_delete"} ->
            [field EXCEPT !.attributes =
                Append(@, [name |-> key,
                           args |-> Some(<<[t |-> "String", v |-> value.text]>>),
                           is_standard |-> Some(TRUE), is_registered |-> None])]
      [] OTHER ->
            [field EXCEPT !.attributes =
                Append(@, [name |-> key,
                           args |-> Some(<<parse_arg_value(value.text)>>),
                           is_standard |-> IF key \in STANDARD_ATTRIBUTES
                                           THEN Some(TRUE) ELSE None,
                           is_registered |-> None])]

(***************************************************************************)
(* parser.rs handle_nested_item.  The entries of the Indexes section are   *)
(* kept by name only, so a nested item below one of them changes nothing   *)
(* here.  An entry of the Relations section is a JSON object of which the  *)
(* keys type, raw, from and loc are kept, each as what its reader gets:    *)
(* the string for type, raw and from (None for a missing key or a value    *)
(* that is no string), the location for loc (None when it is no object).   *)
(* A key comes with a value (RE_NESTED_KV), so the `values:` branch of     *)
(* lines 614-619 is never taken.                                           *)
(***************************************************************************)
\* The texts of the inputs that parse as f64, with their values.
NUMBER_VALUES == { <<"0", 0>>, <<"1", 1>>, <<"5", 5>>, <<"10", 10>>, <<"11", 11>> }

NUMBER_TEXTS == {t[1] : t \in NUMBER_VALUES}

\* s.parse::<f64>() on such a text; an AttrArgValue::Number is kept as the
\* text it was parsed from
number_of(text) == (CHOOSE t \in NUMBER_VALUES : t[1] = text)[2]

\* parser.rs parse_nested_value, as the string it yields if it yields one.
\* No text of the inputs is an array or carries quotes.
parse_nested_value(text) ==
    IF text \in {"true", "false"} \cup NUMBER_TEXTS THEN None ELSE Some(text)

\* obj.insert(k, parse_nested_value(value)) on the last entry of the
\* Relations section
insert_into_relation(entry, key, text) ==
    CASE key = "type" -> [entry EXCEPT !.type = parse_nested_value(text)]
      [] key = "raw"  -> [entry EXCEPT !.raw = parse_nested_value(text)]
      [] key = "from" -> [entry EXCEPT !.from = parse_nested_value(text)]
      [] key = "loc"  -> [entry EXCEPT !.loc = None]
      [] OTHER -> entry

nested_under_field(tok, field, file, current_kind) ==
    LET data == tok.data
        key == Unwrap(data.key)
        value == Unwrap(data.value)
        sub_data == parse_type_and_attrs(value,
                        [DefaultTokenData EXCEPT !.name = data.key])
    IN IF data.key = None THEN field
       ELSE IF IsSome(field.enum_values)
       THEN [field EXCEPT !.enum_values = Some(Append(Unwrap(@), key))]
       ELSE IF field.field_type = Some("enum") /\ ~value.colon
       THEN [field EXCEPT !.enum_values = Some(<<key>>)]
       ELSE IF field.field_type = Some("object") /\ IsSome(sub_data.type_name)
       THEN [field EXCEPT !.fields =
                Some((IF IsSome(@) THEN Unwrap(@) ELSE <<>>)
                     \o <<build_field_node(sub_data, tok, file, current_kind)>>)]
       ELSE apply_extended_attribute(field, key, value)

handle_nested_item(tok, s) ==
    LET el == s.current_element
    IN CASE el.tag = "None" -> s
         [] el.tag = "Enum" ->
                IF IsSome(tok.data.key)
                THEN [s EXCEPT !.current_element.en.values =
                                    Append(@, Unwrap(tok.data.key))]
                ELSE s
         [] OTHER ->
                IF /\ s.current_section = Some("Indexes")
                   /\ IsSome(s.last_field_idx)
                THEN s
                ELSE IF /\ s.current_section = Some("Relations")
                        /\ IsSome(s.last_field_idx)
                THEN IF /\ IsSome(tok.data.key)
                        /\ el.model.sections.relations # <<>>
                     THEN [s EXCEPT
                            !.current_element.model.sections.relations[
                                    Len(el.model.sections.relations)] =
                                insert_into_relation(@, Unwrap(tok.data.key),
                                    Unwrap(tok.data.value).text)]
                     ELSE s
                ELSE IF /\ IsSome(s.last_field_idx)
                        /\ Unwrap(s.last_field_idx) < Len(el.model.fields)
                THEN [s EXCEPT
                        !.current_element.model.fields[Unwrap(s.last_field_idx) + 1] =
                            nested_under_field(tok, @, s.file, s.current_kind)]
                ELSE IF /\ s.current_section = Some("Source")
                        /\ el.model.model_type = "View"
                        /\ IsSome(tok.data.key)
                        /\ IsSome(el.model.source_def)
                THEN [s EXCEPT !.current_element.model.source_def =
                        Some(set_source_directive(Unwrap(@),
                                [DefaultTokenData EXCEPT
                                    !.name = tok.data.key,
                                    !.type_name =
                                        Some(Unwrap(tok.data.value).text)]))]
                ELSE s

(***************************************************************************)
(* parser.rs handle_blockquote: an unindented `> text` line.  (The lexer   *)
(* folds an indented one into the Field token before it and emits no       *)
(* token for it.)                                                          *)
(***************************************************************************)
\* desc.push('\n'); desc.push_str(&text), or Some(text) on None
push_description(description, text) ==
    IF IsSome(description) THEN Some(Unwrap(description) \o "\n" \o text)
    ELSE Some(text)

handle_blockquote(tok, s) ==
    LET text == IF IsSome(tok.data.name) THEN Unwrap(tok.data.name) ELSE ""
        el   == s.current_element
    IN IF IsSome(s.current_attr_def)
       THEN [s EXCEPT !.current_attr_def =
                Some([Unwrap(s.current_attr_def) EXCEPT
                        !.description = Some(text)])]
       ELSE CASE el.tag = "None" -> s
              [] el.tag = "Enum" ->
                    [s EXCEPT !.current_element.en.description =
                                    push_description(@, text)]
              [] OTHER ->
                    IF /\ IsSome(s.last_field_idx)
                       /\ Unwrap(s.last_field_idx) < Len(el.model.fields)
                    THEN [s EXCEPT
                            !.current_element.model.fields[
                                    Unwrap(s.last_field_idx) + 1].description =
                                push_description(@, text)]
                    ELSE [s EXCEPT !.current_element.model.description =
                                    push_description(@, text)]

(***************************************************************************)
(* parser.rs handle_text                                                   *)
(***************************************************************************)
handle_text(tok, s) ==
    IF tok.data.is_import
    THEN IF IsSome(tok.data.import_path)
         THEN [s EXCEPT !.imports = Append(@, Unwrap(tok.data.import_path))]
         ELSE s
    ELSE IF /\ s.current_element.tag = "Model"
            /\ Len(s.current_element.model.fields) = 0
            /\ IsSome(tok.data.name) /\ Unwrap(tok.data.name) # ""
            /\ s.current_element.model.description = None
         THEN [s EXCEPT !.current_element.model.description = tok.data.name]
         ELSE s

(***************************************************************************)
(* parser.rs parse_tokens: the ParsedFile built from the final state.      *)
(***************************************************************************)
ParsedFileOf(s) ==
    [ source |-> s.file, namespace |-> s.namespace, models |-> s.models,
      enums |-> s.enums, interfaces |-> s.interfaces, views |-> s.views,
      attribute_registry |-> s.attribute_registry, imports |-> s.imports ]

(***************************************************************************)
(* The lines a source text is drawn from.                                  *)
(***************************************************************************)
H1(ns, text) == [form |-> "h1", ns |-> ns, text |-> text]
H2(type, name, inherits) ==
    [form |-> "h2", type |-> type, name |-> name, inherits |-> inherits]
H3(name, code_block) == [form |-> "h3", name |-> name, code_block |-> code_block]
\* `- name: type @attributes`; the text after the colon is given by the
\* type (the attributes are left out of it)
FieldLine(name, type_name, attributes, code_block) ==
    [form |-> "field", directive |-> FALSE, name |-> name,
     type_name |-> type_name, attributes |-> attributes,
     code_block |-> code_block,
     raw |-> IF IsSome(type_name)
             THEN [colon |-> TRUE, text |-> Unwrap(type_name)]
             ELSE [colon |-> FALSE, text |-> name]]
DirectiveLine(attr) ==
    [form |-> "field", directive |-> TRUE, name |-> "", type_name |-> None,
     attributes |-> <<[name |-> attr, args |-> <<>>]>>, code_block |-> FALSE,
     raw |-> [colon |-> FALSE, text |-> "@" \o attr]]
\* `- name: text` where text is no type, as in a Relations section or an
\* attribute definition
ItemLine(name, text) ==
    [form |-> "field", directive |-> FALSE, name |-> name,
     type_name |-> None, attributes |-> <<>>, code_block |-> FALSE,
     raw |-> [colon |-> TRUE, text |-> text]]
BlockquoteLine(text) == [form |-> "blockquote", text |-> text]
BlankLine == [form |-> "blank"]
TextLine(text) == [form |-> "text", text |-> text]
ImportLine(path) == [form |-> "import", path |-> path]
NestedLine(key, text, type_name, attributes) ==
    [form |-> "nested", key |-> Some(key),
     value |-> [text |-> text, type_name |-> type_name,
                attributes |-> attributes, colon |-> FALSE]]

Attr(name, args) == [name |-> name, args |-> args]
StrArg(v) == [t |-> "String", v |-> v]
NumArg(v) == [t |-> "Number", v |-> v]

\* one line of every form, so that every handler of the parser is exercised
CoreLines ==
    { H1(TRUE, "sales"), H2("model", "User", <<>>), H2("interface", "Base", <<>>),
      H2("enum", "Status", <<>>), H2("view", "Report", <<>>),
      H2("attribute", "flag", <<>>), H3("Lookup", FALSE),
      FieldLine("id", Some("identifier"), <<>>, FALSE),
      BlankLine, TextLine("note"), ImportLine("base.m3l.md") }

NamespaceLines ==
    CoreLines \cup { H1(TRUE, "inventory"), H1(FALSE, "My Data Model") }

AttrLists ==
    { <<>>,
      <<Attr("lookup", <<StrArg("fk.name")>>)>>,
      <<Attr("lookup", <<>>)>>,
      <<Attr("lookup", <<NumArg("5")>>)>>,
      <<Attr("rollup", <<StrArg("Order.customer_id"), StrArg("count")>>)>>,
      <<Attr("rollup", <<>>)>>,
      <<Attr("computed", <<StrArg("price * quantity")>>)>>,
      <<Attr("computed", <<>>)>>,
      <<Attr("computed_raw", <<StrArg("now()")>>)>>,
      <<Attr("lookup", <<StrArg("fk.name")>>),
        Attr("rollup", <<StrArg("Order.customer_id"), StrArg("count")>>)>>,
      <<Attr("rollup", <<StrArg("Order.customer_id"), StrArg("count")>>),
        Attr("computed", <<StrArg("price * quantity")>>)>>,
      <<Attr("computed", <<StrArg("price * quantity")>>),
        Attr("computed_raw", <<StrArg("now()")>>)>> }

KindLines ==
    CoreLines
    \cup { H3(h, FALSE) : h \in KIND_SECTIONS \cup {"Indexes"} }
    \cup { FieldLine("total", Some("decimal"), a, cb) :
                a \in AttrLists, cb \in BOOLEAN }

(***************************************************************************)
(* parser.rs process_token, parse_tokens and parse_string as functions of  *)
(* a whole text: the resolver's input files are the results of             *)
(* parse_string on texts given as sequences of lines.                      *)
(***************************************************************************)
process_token(tok, s) ==
    CASE tok.token_type = "Namespace" -> handle_namespace(tok, s)
      [] tok.token_type \in {"Model", "Interface"} -> handle_model_start(tok, s)
      [] tok.token_type = "Enum" -> handle_enum_start(tok, s)
      [] tok.token_type = "View" -> handle_view_start(tok, s)
      [] tok.token_type = "AttributeDef" -> handle_attribute_def_start(tok, s)
      [] tok.token_type = "Section" -> handle_section(tok, s)
      [] tok.token_type = "Field" -> handle_field(tok, s)
      [] tok.token_type = "NestedItem" -> handle_nested_item(tok, s)
      [] tok.token_type = "Blockquote" -> handle_blockquote(tok, s)
      [] tok.token_type = "Text" -> handle_text(tok, s)
      [] OTHER -> s

RECURSIVE parse_tokens_from(_, _, _)
parse_tokens_from(lines, i, s) ==
    IF i > Len(lines) THEN s
    ELSE parse_tokens_from(lines, i + 1, process_token(lex(lines[i], i), s))

parse_string(lines, file) ==
    ParsedFileOf(finalize_element(
        parse_tokens_from(lines, 1, InitParserState(file))))

(***************************************************************************)
(* parser.rs process_token: one step consumes the next line of the text,   *)
(* lexes it and dispatches on the token type.                              *)
(***************************************************************************)
Ready == pc = "parsing" /\ result = None /\ n < MaxLines

TokensOf(types) ==
    {line \in alphabet : lex(line, n + 1).token_type \in types}

Consumed(line) ==
    /\ last' = Some(line)
    /\ n' = n + 1
    /\ UNCHANGED <<alphabet, result, scan, files, project, pc, rs, ast, validation>>

HandleNamespace ==
    /\ Ready
    /\ \E line \in TokensOf({"Namespace"}) :
          /\ st' = handle_namespace(lex(line, n + 1), st)
          /\ Consumed(line)

HandleModelStart ==
    /\ Ready
    /\ \E line \in TokensOf({"Model", "Interface"}) :
          /\ st' = handle_model_start(lex(line, n + 1), st)
          /\ Consumed(line)

HandleEnumStart ==
    /\ Ready
    /\ \E line \in TokensOf({"Enum"}) :
          /\ st' = handle_enum_start(lex(line, n + 1), st)
          /\ Consumed(line)

HandleViewStart ==
    /\ Ready
    /\ \E line \in TokensOf({"View"}) :
          /\ st' = handle_view_start(lex(line, n + 1), st)
          /\ Consumed(line)

HandleAttributeDefStart ==
    /\ Ready
    /\ \E line \in TokensOf({"AttributeDef"}) :
          /\ st' = handle_attribute_def_start(lex(line, n + 1), st)
          /\ Consumed(line)

HandleSection ==
    /\ Ready
    /\ \E line \in TokensOf({"Section"}) :
          /\ st' = handle_section(lex(line, n + 1), st)
          /\ Consumed(line)

HandleField ==
    /\ Ready
    /\ \E line \in TokensOf({"Field"}) :
          /\ st' = handle_field(lex(line, n + 1), st)
          /\ Consumed(line)

HandleText ==
    /\ Ready
    /\ \E line \in TokensOf({"Text"}) :
          /\ st' = handle_text(lex(line, n + 1), st)
          /\ Consumed(line)

\* process_token: HorizontalRule and Blank tokens change nothing
HandleBlank ==
    /\ Ready
    /\ \E line \in TokensOf({"HorizontalRule", "Blank"}) :
          /\ st' = st
          /\ Consumed(line)

\* parse_tokens after the last token: finalize_element, then the ParsedFile
ParseEnd ==
    /\ pc = "parsing"
    /\ result = None
    /\ st' = finalize_element(st)
    /\ result' = Some(ParsedFileOf(finalize_element(st)))
    /\ UNCHANGED <<alphabet, n, last, scan, files, project, pc, rs, ast, validation>>

ParseNext ==
    \/ HandleNamespace
    \/ HandleModelStart
    \/ HandleEnumStart
    \/ HandleViewStart
    \/ HandleAttributeDefStart
    \/ HandleSection
    \/ HandleField
    \/ HandleText
    \/ HandleBlank
    \/ ParseEnd

ParseInit(lines) ==
    /\ alphabet = lines
    /\ st = InitParserState("test.m3l.md")
    /\ n = 0
    /\ last = None
    /\ result = None
    /\ scan = [pc |-> "idle"]
    /\ files = <<>>
    /\ project = None
    /\ pc = "parsing"
    /\ rs = <<>>
    /\ ast = None
    /\ validation = None

SpecNamespace == ParseInit(NamespaceLines) /\ [][ParseNext]_vars
SpecKind == ParseInit(KindLines) /\ [][ParseNext]_vars

(***************************************************************************)
(* C1: the namespace is set only by an H1 line of the form                 *)
(* `# Namespace: X`: a step that consumes an H1 line of any other form     *)
(* leaves the namespace as it was (null when none was set, the earlier     *)
(* namespace otherwise).                                                   *)
(***************************************************************************)
C1_NonNamespaceH1KeepsNamespace ==
    [][ (n' = n + 1 /\ Unwrap(last').form = "h1" /\ ~Unwrap(last').ns)
            => st'.namespace = st.namespace ]_vars

AllFieldsOf(pf) ==
    UNION { {m.fields[i] : i \in 1..Len(m.fields)} :
            m \in {pf.models[i] : i \in 1..Len(pf.models)}
                  \cup {pf.views[i] : i \in 1..Len(pf.views)}
                  \cup {pf.interfaces[i] : i \in 1..Len(pf.interfaces)} }

DetailCount(f) ==
    (IF IsSome(f.lookup) THEN 1 ELSE 0) + (IF IsSome(f.rollup) THEN 1 ELSE 0)
        + (IF IsSome(f.computed) THEN 1 ELSE 0)

(***************************************************************************)
(* C8: every field of the parsed file has at most one of the detail        *)
(* records lookup, rollup, computed, and a present record is the one that  *)
(* matches the field's kind.                                               *)
(***************************************************************************)
C8_AtMostOneDetailMatchingKind ==
    IsSome(result) =>
        \A f \in AllFieldsOf(Unwrap(result)) :
            /\ DetailCount(f) <= 1
            /\ IsSome(f.lookup) => f.kind = "Lookup"
            /\ IsSome(f.rollup) => f.kind = "Rollup"
            /\ IsSome(f.computed) => f.kind = "Computed"

(***************************************************************************)
(* C9: every field of the parsed file whose kind is lookup, rollup or      *)
(* computed has exactly one of the detail records populated.               *)
(***************************************************************************)
C9_DerivedKindHasOneDetail ==
    IsSome(result) =>
        \A f \in AllFieldsOf(Unwrap(result)) :
            f.kind # "Stored" => DetailCount(f) = 1

(***************************************************************************)
(* resolver.rs.  A HashMap is a function whose domain is the set of its    *)
(* keys; a Vec is a sequence.  A diagnostic is [code, severity, file,      *)
(* line, message] where message holds the values formatted into the        *)
(* message text.                                                           *)
(***************************************************************************)
EmptyMap == <<>>
Insert(map, k, v) == (k :> v) @@ map

RECURSIVE Concat(_)
Concat(seqs) == IF seqs = <<>> THEN <<>> ELSE Head(seqs) \o Concat(Tail(seqs))

Perms(S) ==
    {p \in [1..Cardinality(S) -> S] : \A i, j \in DOMAIN p : p[i] = p[j] => i = j}

\* resolve, lines 9-41: the locals before the first loop
InitResolveState ==
    [ all_models |-> <<>>, all_enums |-> <<>>, all_interfaces |-> <<>>,
      all_views |-> <<>>, all_attr_registry |-> <<>>, sources |-> <<>>,
      name_ns_map |-> EmptyMap, model_map |-> EmptyMap,
      interface_map |-> EmptyMap, all_named |-> EmptyMap, errors |-> <<>> ]

\* resolve, lines 20-27
collect(fs, r) ==
    [r EXCEPT
       !.sources = [i \in 1..Len(fs) |-> fs[i].source],
       !.all_models = Concat([i \in 1..Len(fs) |-> fs[i].models]),
       !.all_enums = Concat([i \in 1..Len(fs) |-> fs[i].enums]),
       !.all_interfaces = Concat([i \in 1..Len(fs) |-> fs[i].interfaces]),
       !.all_views = Concat([i \in 1..Len(fs) |-> fs[i].views]),
       !.all_attr_registry =
            Concat([i \in 1..Len(fs) |-> fs[i].attribute_registry])]

\* resolve, lines 30-33: collecting into a HashMap keeps the last file of a path
source_ns(fs, source) ==
    LET hits == {i \in 1..Len(fs) : fs[i].source = source}
    IN fs[CHOOSE i \in hits : \A j \in hits : j <= i].namespace

check_duplicate(name, kind, source, line, all_named, errors) ==
    IF name \in DOMAIN all_named
    THEN Append(errors,
                [code |-> "M3L-E005", severity |-> "error", file |-> source, line |-> line,
                 message |-> [text |-> "Duplicate name", kind |-> kind,
                              name |-> name,
                              first_file |-> all_named[name].file,
                              first_line |-> all_named[name].line]])
    ELSE errors

\* the part the four loops of lines 43-131 share: all_named and name_ns_map
record_name(fs, node, kind, r) ==
    [r EXCEPT
       !.all_named = Insert(@, node.name,
            [kind |-> kind, file |-> node.source, line |-> node.line]),
       !.name_ns_map = Insert(@, node.name,
            Append(IF node.name \in DOMAIN @ THEN @[node.name] ELSE <<>>,
                   [ns |-> source_ns(fs, node.source), file |-> node.source,
                    line |-> node.line]))]

\* resolve, lines 43-67
RECURSIVE name_models(_, _, _)
name_models(fs, i, r) ==
    IF i > Len(r.all_models) THEN r
    ELSE LET model == r.all_models[i]
             r1 == [r EXCEPT
                      !.errors = check_duplicate(model.name, "model",
                                    model.source, model.line, r.all_named, @),
                      !.model_map = Insert(@, model.name, i)]
         IN name_models(fs, i + 1, record_name(fs, model, "model", r1))

\* resolve, lines 69-88
RECURSIVE name_enums(_, _, _)
name_enums(fs, i, r) ==
    IF i > Len(r.all_enums) THEN r
    ELSE LET en == r.all_enums[i]
             r1 == [r EXCEPT
                      !.errors = check_duplicate(en.name, "enum", en.source,
                                                 en.line, r.all_named, @)]
         IN name_enums(fs, i + 1, record_name(fs, en, "enum", r1))

\* resolve, lines 90-114
RECURSIVE name_interfaces(_, _, _)
name_interfaces(fs, i, r) ==
    IF i > Len(r.all_interfaces) THEN r
    ELSE LET iface == r.all_interfaces[i]
             r1 == [r EXCEPT
                      !.errors = check_duplicate(iface.name, "interface",
                                    iface.source, iface.line, r.all_named, @),
                      !.interface_map = Insert(@, iface.name, i)]
         IN name_interfaces(fs, i + 1, record_name(fs, iface, "interface", r1))

\* resolve, lines 116-131: views are recorded without check_duplicate
RECURSIVE name_views(_, _, _)
name_views(fs, i, r) ==
    IF i > Len(r.all_views) THEN r
    ELSE name_views(fs, i + 1, record_name(fs, r.all_views[i], "view", r))

build_name_maps(fs, r) ==
    name_views(fs, 1, name_interfaces(fs, 1, name_enums(fs, 1,
        name_models(fs, 1, r))))

(***************************************************************************)
(* resolve, lines 133-161 (E008).  The loop runs over a HashMap and the    *)
(* namespace list is collected from a HashSet: both orders are arbitrary,  *)
(* so the order of the names and, for each name, of its namespaces are     *)
(* parameters.                                                             *)
(***************************************************************************)
distinct_ns(entries) == {entries[i].ns : i \in 1..Len(entries)}

AmbiguousNames(name_ns_map) ==
    {name \in DOMAIN name_ns_map :
        /\ Len(name_ns_map[name]) >= 2
        /\ Cardinality(distinct_ns(name_ns_map[name])) >= 2}

ns_display(ns) == IF IsSome(ns) THEN Unwrap(ns) ELSE "(none)"

ambiguity_error(name, entries, ns_order) ==
    [code |-> "M3L-E008", severity |-> "error", file |-> entries[2].file, line |-> entries[2].line,
     message |-> [text |-> "Ambiguous model reference", name |-> name,
                  ns_list |-> [i \in DOMAIN ns_order |-> ns_display(ns_order[i])]]]

check_ambiguity(name_order, ns_orders, r) ==
    [r EXCEPT !.errors = @ \o
        [i \in DOMAIN name_order |->
            ambiguity_error(name_order[i], r.name_ns_map[name_order[i]],
                            ns_orders[name_order[i]])]]

(***************************************************************************)
(* resolver.rs resolve_inheritance and its inner fn collect_fields.  The   *)
(* four &mut arguments of collect_fields travel in the record `acc`; the   *)
(* arguments it only reads are taken from the resolve state `r` and the    *)
(* model being resolved.                                                   *)
(***************************************************************************)
\* collect_fields, lines 312-315: model_map first, then interface_map
find_parent(name, r) ==
    IF name \in DOMAIN r.model_map
    THEN Some(r.all_models[r.model_map[name]])
    ELSE IF name \in DOMAIN r.interface_map
         THEN Some(r.all_interfaces[r.interface_map[name]])
         ELSE None

HasFieldNamed(fields, name) == \E i \in 1..Len(fields) : fields[i].name = name

\* a variant that does not skip names already collected
add_parent_fields_without_skip(inherited_fields, parent_fields) ==
    inherited_fields \o parent_fields

\* a variant where the parent's field replaces one collected earlier
add_parent_fields_last_wins(inherited_fields, parent_fields) ==
    SelectSeq(inherited_fields,
              LAMBDA f : ~HasFieldNamed(parent_fields, f.name))
        \o parent_fields

\* collect_fields, lines 357-362
RECURSIVE add_parent_fields(_, _)
add_parent_fields(inherited_fields, parent_fields) ==
    IF parent_fields = <<>> THEN inherited_fields
    ELSE add_parent_fields(
            IF HasFieldNamed(inherited_fields, Head(parent_fields).name)
            THEN inherited_fields
            ELSE Append(inherited_fields, Head(parent_fields)),
            Tail(parent_fields))

unresolved_error(name, model) ==
    [code |-> "M3L-E007", severity |-> "error", file |-> model.source, line |-> model.line,
     message |-> [text |-> "Unresolved inheritance reference", name |-> name,
                  model |-> model.name]]

RECURSIVE collect_fields(_, _, _, _), collect_each(_, _, _, _)
collect_fields(name, model, r, acc) ==
    IF name \in acc.resolved \/ name \in acc.visiting THEN acc
    ELSE LET a1 == [acc EXCEPT !.visiting = @ \cup {name}]
             parent == find_parent(name, r)
         IN IF parent = None
            THEN [a1 EXCEPT
                    !.errors = IF name \notin DOMAIN r.all_named
                               THEN Append(@, unresolved_error(name, model))
                               ELSE @,
                    !.visiting = @ \ {name}]
            ELSE LET a2 == collect_each(Unwrap(parent).inherits, model, r, a1)
                 IN [a2 EXCEPT
                       !.inherited_fields =
                            add_parent_fields(@, Unwrap(parent).fields),
                       !.visiting = @ \ {name},
                       !.resolved = @ \cup {name}]

\* the loops of lines 338-354 and 370-386
collect_each(names, model, r, acc) ==
    IF names = <<>> THEN acc
    ELSE collect_each(Tail(names), model, r,
                      collect_fields(Head(names), model, r, acc))

HasAttr(f, name) == \E i \in 1..Len(f.attributes) : f.attributes[i].name = name

\* resolve_inheritance, lines 389-394
override_names(fields) ==
    {fields[i].name : i \in {j \in 1..Len(fields) : HasAttr(fields[j], "override")}}

\* a variant that keeps the overridden fields
unfiltered_inherited(inherited_fields, overrides) == inherited_fields

\* resolve_inheritance, lines 396-399
filtered_inherited(inherited_fields, overrides) ==
    SelectSeq(inherited_fields, LAMBDA f : f.name \notin overrides)

resolve_inheritance(model_idx, r) ==
    LET model == r.all_models[model_idx]
    IN IF model.inherits = <<>> THEN r
       ELSE LET acc == collect_each(model.inherits, model, r,
                          [inherited_fields |-> <<>>, resolved |-> {},
                           visiting |-> {}, errors |-> r.errors])
                kept == filtered_inherited(acc.inherited_fields,
                                           override_names(model.fields))
            IN [r EXCEPT
                  !.errors = acc.errors,
                  !.all_models[model_idx].fields =
                        IF kept # <<>> THEN kept \o @ ELSE @]

\* resolve, lines 164-174
RECURSIVE resolve_all_inheritance(_, _)
resolve_all_inheritance(i, r) ==
    IF i > Len(r.all_models) THEN r
    ELSE resolve_all_inheritance(i + 1, resolve_inheritance(i, r))

(***************************************************************************)
(* resolver.rs check_duplicate_fields; resolve calls it for the models and *)
(* then for the views (lines 176-179).                                     *)
(***************************************************************************)
model_type_name(model) ==
    CASE model.model_type = "Model" -> "model"
      [] model.model_type = "View" -> "view"
      [] model.model_type = "Interface" -> "interface"
      [] OTHER -> "enum"

RECURSIVE dup_fields_from(_, _, _, _)
dup_fields_from(model, i, seen, errors) ==
    IF i > Len(model.fields) THEN errors
    ELSE LET field == model.fields[i]
         IN IF field.name \in DOMAIN seen
            THEN dup_fields_from(model, i + 1, seen,
                    Append(errors,
                        [code |-> "M3L-E005", severity |-> "error", file |-> field.loc.file,
                         line |-> field.loc.line,
                         message |-> [text |-> "Duplicate field name",
                                      name |-> field.name,
                                      kind |-> model_type_name(model),
                                      model |-> model.name,
                                      first_line |-> seen[field.name]]]))
            ELSE dup_fields_from(model, i + 1,
                    Insert(seen, field.name, field.loc.line), errors)

check_duplicate_fields(model, errors) ==
    dup_fields_from(model, 1, EmptyMap, errors)

RECURSIVE check_all_duplicate_fields(_, _)
check_all_duplicate_fields(models, errors) ==
    IF models = <<>> THEN errors
    ELSE check_all_duplicate_fields(Tail(models),
            check_duplicate_fields(Head(models), errors))

(***************************************************************************)
(* resolve, lines 181-212: isRegistered tagging                            *)
(***************************************************************************)
tag_attrs(attrs, registered_names) ==
    [i \in 1..Len(attrs) |->
        IF attrs[i].name \in registered_names
        THEN [attrs[i] EXCEPT !.is_registered = Some(TRUE)]
        ELSE attrs[i]]

tag_model(m, registered_names) ==
    [m EXCEPT
       !.attributes = tag_attrs(@, registered_names),
       !.fields = [i \in 1..Len(@) |->
                     [@[i] EXCEPT !.attributes = tag_attrs(@, registered_names)]]]

tag_registered(r) ==
    IF r.all_attr_registry = <<>> THEN r
    ELSE LET registered_names ==
                {r.all_attr_registry[i].name : i \in 1..Len(r.all_attr_registry)}
             tag_all(ms) == [i \in 1..Len(ms) |-> tag_model(ms[i], registered_names)]
         IN [r EXCEPT !.all_models = tag_all(@), !.all_views = tag_all(@),
                      !.all_interfaces = tag_all(@)]

(***************************************************************************)
(* resolver.rs detect_circular_imports_internal and dfs_detect_cycle.      *)
(* file_imports is a sequence of [src, imports]; the three &mut arguments  *)
(* of dfs_detect_cycle travel in the record `acc`.                         *)
(***************************************************************************)
\* lines 452-455: collecting into a HashMap keeps the last entry of a path
adj_of(file_imports) ==
    [src \in {file_imports[i].src : i \in 1..Len(file_imports)} |->
        LET hits == {i \in 1..Len(file_imports) : file_imports[i].src = src}
        IN file_imports[CHOOSE i \in hits : \A j \in hits : j <= i].imports]

InSeq(x, seq) == \E i \in 1..Len(seq) : seq[i] = x

\* a variant that looks at the top of the stack only
rec_stack_top_is(rec_stack, import) ==
    rec_stack # <<>> /\ rec_stack[Len(rec_stack)] = import

\* dfs_detect_cycle, line 486
rec_stack_contains(rec_stack, import) == InSeq(import, rec_stack)

\* a variant whose chain does not return to its first file
circular_error_open_chain(node, import, rec_stack) ==
    [code |-> "M3L-E003", severity |-> "error", file |-> node, line |-> 1,
     message |-> [text |-> "Circular import detected", chain |-> rec_stack]]

\* lines 488-504
circular_error(node, import, rec_stack) ==
    LET cycle_start == CHOOSE i \in 1..Len(rec_stack) :
                          /\ rec_stack[i] = import
                          /\ \A j \in 1..(i - 1) : rec_stack[j] # import
    IN [code |-> "M3L-E003", severity |-> "error", file |-> node, line |-> 1,
        message |-> [text |-> "Circular import detected",
                     chain |-> Append(SubSeq(rec_stack, cycle_start,
                                             Len(rec_stack)), import)]]

RECURSIVE dfs_detect_cycle(_, _, _), dfs_imports(_, _, _, _)
dfs_detect_cycle(node, adj, acc) ==
    LET a1 == [acc EXCEPT !.visited = @ \cup {node},
                          !.rec_stack = Append(@, node)]
        a2 == IF node \in DOMAIN adj THEN dfs_imports(node, adj[node], adj, a1)
              ELSE a1
    IN [a2 EXCEPT !.rec_stack = SubSeq(@, 1, Len(@) - 1)]

\* the loop of lines 480-506
dfs_imports(node, imports, adj, acc) ==
    IF imports = <<>> THEN acc
    ELSE LET import == Head(imports)
             a1 == IF import \notin acc.visited
                   THEN IF import \in DOMAIN adj
                        THEN dfs_detect_cycle(import, adj, acc)
                        ELSE acc
                   ELSE IF rec_stack_contains(acc.rec_stack, import)
                        THEN [acc EXCEPT !.errors =
                                Append(@, circular_error(node, import,
                                                         acc.rec_stack))]
                        ELSE acc
         IN dfs_imports(node, Tail(imports), adj, a1)

\* the loop of lines 460-464
RECURSIVE dfs_roots(_, _, _, _)
dfs_roots(file_imports, i, adj, acc) ==
    IF i > Len(file_imports) THEN acc
    ELSE dfs_roots(file_imports, i + 1, adj,
            IF file_imports[i].src \notin acc.visited
            THEN dfs_detect_cycle(file_imports[i].src, adj, acc)
            ELSE acc)

detect_circular_imports_internal(file_imports) ==
    dfs_roots(file_imports, 1, adj_of(file_imports),
              [visited |-> {}, rec_stack |-> <<>>, errors |-> <<>>]).errors

detect_circular_imports(file_imports) ==
    detect_circular_imports_internal(file_imports)

\* resolve, lines 215-218
file_imports_of(fs) ==
    [i \in 1..Len(fs) |-> [src |-> fs[i].source, imports |-> fs[i].imports]]

(***************************************************************************)
(* resolve, lines 222-243: project info and the returned M3lAst            *)
(***************************************************************************)
first_namespace(fs) ==
    LET hits == {i \in 1..Len(fs) : IsSome(fs[i].namespace)}
    IN IF hits = {} THEN None
       ELSE fs[CHOOSE i \in hits : \A j \in hits : i <= j].namespace

project_info(fs, proj) ==
    LET info == IF IsSome(proj) THEN Unwrap(proj)
                ELSE [name |-> None, version |-> None]
    IN IF info.name = None THEN [info EXCEPT !.name = first_namespace(fs)]
       ELSE info

M3lAstOf(fs, proj, r) ==
    [ project |-> project_info(fs, proj), sources |-> r.sources,
      models |-> r.all_models, enums |-> r.all_enums,
      interfaces |-> r.all_interfaces, views |-> r.all_views,
      attribute_registry |-> r.all_attr_registry, errors |-> r.errors,
      warnings |-> <<>> ]

(***************************************************************************)
(* resolve as a process: one action per phase of the function body, `pc`   *)
(* naming the phase to run next.                                           *)
(***************************************************************************)
Collect ==
    /\ pc = "collect"
    /\ rs' = collect(files, InitResolveState)
    /\ pc' = "names"
    /\ UNCHANGED <<parserVars, files, project, ast, validation>>

BuildNameMaps ==
    /\ pc = "names"
    /\ rs' = build_name_maps(files, rs)
    /\ pc' = "ambiguity"
    /\ UNCHANGED <<parserVars, files, project, ast, validation>>

CheckAmbiguity ==
    /\ pc = "ambiguity"
    /\ \E name_order \in Perms(AmbiguousNames(rs.name_ns_map)) :
       \E ns_orders \in [AmbiguousNames(rs.name_ns_map) ->
                            UNION {Perms(distinct_ns(rs.name_ns_map[nm])) :
                                   nm \in AmbiguousNames(rs.name_ns_map)}] :
          /\ \A nm \in AmbiguousNames(rs.name_ns_map) :
                ns_orders[nm] \in Perms(distinct_ns(rs.name_ns_map[nm]))
          /\ rs' = check_ambiguity(name_order, ns_orders, rs)
    /\ pc' = "inheritance"
    /\ UNCHANGED <<parserVars, files, project, ast, validation>>

ResolveInheritance ==
    /\ pc = "inheritance"
    /\ rs' = resolve_all_inheritance(1, rs)
    /\ pc' = "fields"
    /\ UNCHANGED <<parserVars, files, project, ast, validation>>

CheckDuplicateFields ==
    /\ pc = "fields"
    /\ rs' = [rs EXCEPT !.errors =
                check_all_duplicate_fields(rs.all_models \o rs.all_views, @)]
    /\ pc' = "tagging"
    /\ UNCHANGED <<parserVars, files, project, ast, validation>>

TagRegistered ==
    /\ pc = "tagging"
    /\ rs' = tag_registered(rs)
    /\ pc' = "imports"
    /\ UNCHANGED <<parserVars, files, project, ast, validation>>

DetectCircularImports ==
    /\ pc = "imports"
    /\ rs' = [rs EXCEPT !.errors =
                @ \o detect_circular_imports_internal(file_imports_of(files))]
    /\ pc' = "return"
    /\ UNCHANGED <<parserVars, files, project, ast, validation>>

Return ==
    /\ pc = "return"
    /\ ast' = Some(M3lAstOf(files, project, rs))
    /\ pc' = "done"
    /\ UNCHANGED <<parserVars, files, project, rs, validation>>

ResolveNext ==
    \/ Collect
    \/ BuildNameMaps
    \/ CheckAmbiguity
    \/ ResolveInheritance
    \/ CheckDuplicateFields
    \/ TagRegistered
    \/ DetectCircularImports
    \/ Return

\* resolve is entered with the given files and project argument
ResolveInit(fs, proj) ==
    /\ alphabet = {}
    /\ st = InitParserState("")
    /\ n = 0
    /\ last = None
    /\ result = None
    /\ scan = [pc |-> "idle"]
    /\ files = fs
    /\ project = proj
    /\ pc = "collect"
    /\ rs = InitResolveState
    /\ ast = None
    /\ validation = None

(***************************************************************************)
(* Inputs of resolve for the inheritance rules.  Every file is the result  *)
(* of parse_string on a text made of element headers and field lines.      *)
(*   - three elements A (first file), B and C (second file), C a model,    *)
(*     with arbitrary inherits lists over A, B, C and the undefined name   *)
(*     X and arbitrary field lists over x, x @override and y: MaxSize      *)
(*     bounds the number of inherits entries plus field lines of a text;   *)
(*   - the diamond D : B, C with B : A and C : A, in both file orders.     *)
(***************************************************************************)
MaxSize == 4

Min(a, b) == IF a <= b THEN a ELSE b

SeqsUpTo(S, k) == UNION {[1..m -> S] : m \in 0..k}

FieldX == FieldLine("x", Some("string"), <<>>, FALSE)
FieldXOverride ==
    FieldLine("x", Some("integer"), <<Attr("override", <<>>)>>, FALSE)
FieldY == FieldLine("y", Some("string"), <<>>, FALSE)

InheritsUpTo(budget) == SeqsUpTo({"A", "B", "C", "X"}, Min(budget, 2))
FieldsUpTo(budget) == SeqsUpTo({FieldX, FieldXOverride, FieldY}, Min(budget, 2))

ElementText(type, name, inherits, fields) == <<H2(type, name, inherits)>> \o fields

ElementTypes ==
    { <<"model", "model">>, <<"interface", "model">>,
      <<"interface", "interface">>, <<"view", "model">>, <<"enum", "model">> }

ChainFiles(types, iA, fA, iB, fB, iC, fC) ==
    << parse_string(ElementText(types[1], "A", iA, fA), "a.m3l.md"),
       parse_string(ElementText(types[2], "B", iB, fB)
                        \o ElementText("model", "C", iC, fC), "b.m3l.md") >>

InitChain ==
    \E types \in ElementTypes :
    \E iA \in InheritsUpTo(MaxSize) :
    \E iB \in InheritsUpTo(MaxSize - Len(iA)) :
    \E iC \in InheritsUpTo(MaxSize - Len(iA) - Len(iB)) :
    \E fA \in FieldsUpTo(MaxSize - Len(iA) - Len(iB) - Len(iC)) :
    \E fB \in FieldsUpTo(MaxSize - Len(iA) - Len(iB) - Len(iC) - Len(fA)) :
    \E fC \in FieldsUpTo(MaxSize - Len(iA) - Len(iB) - Len(iC) - Len(fA)
                            - Len(fB)) :
        ResolveInit(ChainFiles(types, iA, fA, iB, fB, iC, fC), None)

DiamondFields == { <<>>, <<FieldX>>, <<FieldY>>, <<FieldXOverride>> }

DiamondFiles(typeA, iD, fA, fB, fC, fD) ==
    << parse_string(ElementText(typeA, "A", <<>>, fA)
                        \o ElementText("model", "B", <<"A">>, fB), "a.m3l.md"),
       parse_string(ElementText("model", "C", <<"A">>, fC)
                        \o ElementText("model", "D", iD, fD), "b.m3l.md") >>

InitDiamond ==
    \E typeA \in {"model", "interface"} :
    \E iD \in {<<"B", "C">>, <<"C", "B">>} :
    \E fA \in DiamondFields : \E fB \in DiamondFields :
    \E fC \in DiamondFields : \E fD \in DiamondFields :
    \E fs \in Perms({1, 2}) :
        ResolveInit([i \in 1..2 |->
                        DiamondFiles(typeA, iD, fA, fB, fC, fD)[fs[i]]], None)

SpecInherit == (InitChain \/ InitDiamond) /\ [][ResolveNext]_vars

(***************************************************************************)
(* The inheritance rule stated on the input files, without the resolver's  *)
(* bookkeeping.  A name refers to the model of that name, else to the      *)
(* interface of that name (the last one when several share it).            *)
(***************************************************************************)
InputModels == Concat([i \in 1..Len(files) |-> files[i].models])
InputInterfaces == Concat([i \in 1..Len(files) |-> files[i].interfaces])

LastNamed(nodes, name) ==
    LET hits == {i \in 1..Len(nodes) : nodes[i].name = name}
    IN IF hits = {} THEN None
       ELSE Some(nodes[CHOOSE i \in hits : \A j \in hits : j <= i])

Referent(name) ==
    IF IsSome(LastNamed(InputModels, name)) THEN LastNamed(InputModels, name)
    ELSE LastNamed(InputInterfaces, name)

ParentsOf(name) ==
    IF IsSome(Referent(name))
    THEN {Unwrap(Referent(name)).inherits[i] :
            i \in 1..Len(Unwrap(Referent(name)).inherits)}
    ELSE {}

RECURSIVE ReachableFrom(_)
ReachableFrom(names) ==
    LET next == names \cup UNION {ParentsOf(nm) : nm \in names}
    IN IF next = names THEN names ELSE ReachableFrom(next)

Ancestors(model) ==
    ReachableFrom({model.inherits[i] : i \in 1..Len(model.inherits)})

\* no inheritance cycle can be reached from the model
AcyclicInherits(model) ==
    /\ model.name \notin Ancestors(model)
    /\ \A nm \in Ancestors(model) : nm \notin ReachableFrom(ParentsOf(nm))

RECURSIVE PostOrder(_)
PostOrder(name) ==
    IF IsSome(Referent(name))
    THEN Concat([i \in 1..Len(Unwrap(Referent(name)).inherits) |->
                    PostOrder(Unwrap(Referent(name)).inherits[i])]) \o <<name>>
    ELSE <<>>

FirstOfEachName(fields) ==
    LET keep == {i \in 1..Len(fields) :
                    \A j \in 1..(i - 1) : fields[j].name # fields[i].name}
        nth(k) == CHOOSE i \in keep : Cardinality({j \in keep : j < i}) = k - 1
    IN [k \in 1..Cardinality(keep) |-> fields[nth(k)]]

AncestorFields(model) ==
    LET order == Concat([i \in 1..Len(model.inherits) |->
                            PostOrder(model.inherits[i])])
    IN FirstOfEachName(Concat([i \in 1..Len(order) |->
                                  Unwrap(Referent(order[i])).fields]))

OverriddenNames(model) ==
    {model.fields[i].name :
        i \in {j \in 1..Len(model.fields) :
                 \E a \in 1..Len(model.fields[j].attributes) :
                    model.fields[j].attributes[a].name = "override"}}

Resolved == IsSome(ast)

(***************************************************************************)
(* C2 as stated: after resolve, the field list of every model with an      *)
(* acyclic inherits list is the fields of its ancestors in depth-first     *)
(* post-order (first occurrence of a name kept), as unchanged copies with  *)
(* the ancestor's location, followed by the model's own fields.            *)
(***************************************************************************)
C2_FieldsArePostOrderThenOwn ==
    Resolved =>
        \A k \in 1..Len(InputModels) :
            AcyclicInherits(InputModels[k]) =>
                Unwrap(ast).models[k].fields =
                    AncestorFields(InputModels[k]) \o InputModels[k].fields

(***************************************************************************)
(* C2 amended: the same, except that an ancestor field whose name equals   *)
(* an own field carrying @override is left out of the inherited part.      *)
(***************************************************************************)
C2_FieldsArePostOrderMinusOverriddenThenOwn ==
    Resolved =>
        \A k \in 1..Len(InputModels) :
            AcyclicInherits(InputModels[k]) =>
                Unwrap(ast).models[k].fields =
                    SelectSeq(AncestorFields(InputModels[k]),
                              LAMBDA f : f.name \notin
                                            OverriddenNames(InputModels[k]))
                        \o InputModels[k].fields

\* a resolved model three levels deep that inherits copies from both levels,
\* one of them located in another file
C2_Witness ==
    /\ Resolved
    /\ \E k \in 1..Len(InputModels) :
          /\ AcyclicInherits(InputModels[k])
          /\ Len(PostOrder(InputModels[k].name)) >= 3
          /\ Len(AncestorFields(InputModels[k])) >= 2
          /\ Len(Unwrap(ast).models[k].fields)
                = Len(InputModels[k].fields) + 2
          /\ \E i \in 1..2 :
                Unwrap(ast).models[k].fields[i].loc.file # InputModels[k].source

FieldsNamed(fields, name) == SelectSeq(fields, LAMBDA f : f.name = name)

AncestorDefines(model, name) ==
    \E nm \in Ancestors(model) :
        /\ IsSome(Referent(nm))
        /\ FieldsNamed(Unwrap(Referent(nm)).fields, name) # <<>>

HasOverride(f) ==
    \E a \in 1..Len(f.attributes) : f.attributes[a].name = "override"

DuplicateFieldDiagnostic(errors, model, name) ==
    \E i \in 1..Len(errors) :
        /\ errors[i].code = "M3L-E005"
        /\ errors[i].message.text = "Duplicate field name"
        /\ errors[i].message.name = name
        /\ errors[i].message.model = model.name

\* model k declares the own field f with @override and an ancestor defines
\* a field of that name
OverrideCase(k, f) ==
    /\ InSeq(f, InputModels[k].fields)
    /\ HasOverride(f)
    /\ AncestorDefines(InputModels[k], f.name)

OwnWins(k, f) ==
    /\ FieldsNamed(Unwrap(ast).models[k].fields, f.name) = <<f>>
    /\ ~DuplicateFieldDiagnostic(Unwrap(ast).errors, InputModels[k], f.name)

OwnFieldsOf(k) == {InputModels[k].fields[i] : i \in 1..Len(InputModels[k].fields)}

(***************************************************************************)
(* C3 as stated: when a model declares an own field f with @override and   *)
(* an ancestor defines a field named f, the resolved field list holds      *)
(* exactly one field named f, the model's own, and no duplicate-field      *)
(* diagnostic is emitted for f.                                            *)
(***************************************************************************)
C3_OverrideOwnFieldWins ==
    Resolved =>
        \A k \in 1..Len(InputModels) : \A f \in OwnFieldsOf(k) :
            OverrideCase(k, f) => OwnWins(k, f)

(***************************************************************************)
(* C3 amended: the same for a model that declares the name f once.         *)
(***************************************************************************)
C3_OverrideSingleOwnFieldWins ==
    Resolved =>
        \A k \in 1..Len(InputModels) : \A f \in OwnFieldsOf(k) :
            (OverrideCase(k, f)
                /\ Len(FieldsNamed(InputModels[k].fields, f.name)) = 1)
            => OwnWins(k, f)

\* a resolved model whose @override field replaced an ancestor's field while
\* another field of that ancestor was inherited
C3_Witness ==
    /\ Resolved
    /\ \E k \in 1..Len(InputModels) : \E f \in OwnFieldsOf(k) :
          /\ OverrideCase(k, f)
          /\ Len(FieldsNamed(InputModels[k].fields, f.name)) = 1
          /\ Len(AncestorFields(InputModels[k])) >= 2
          /\ Len(Unwrap(ast).models[k].fields) = Len(InputModels[k].fields) + 1

UniqueFieldNames(fields) ==
    \A i, j \in 1..Len(fields) : fields[i].name = fields[j].name => i = j

ElementsOf(a) ==
    {a.models[i] : i \in 1..Len(a.models)}
        \cup {a.views[i] : i \in 1..Len(a.views)}
        \cup {a.interfaces[i] : i \in 1..Len(a.interfaces)}

(***************************************************************************)
(* C7: for every model, view and interface of the resolved AST, either no  *)
(* two of its fields share a name or the errors hold a duplicate-field     *)
(* diagnostic for that element.                                            *)
(***************************************************************************)
C7_DuplicateFieldsAreDiagnosed ==
    Resolved =>
        \A el \in ElementsOf(Unwrap(ast)) :
            \/ UniqueFieldNames(el.fields)
            \/ \E i \in 1..Len(Unwrap(ast).errors) :
                  /\ Unwrap(ast).errors[i].code = "M3L-E005"
                  /\ Unwrap(ast).errors[i].message.text = "Duplicate field name"
                  /\ Unwrap(ast).errors[i].message.model = el.name
                  /\ Unwrap(ast).errors[i].message.kind = model_type_name(el)

(***************************************************************************)
(* Inputs of resolve for the naming rules: two files, each with or without *)
(* a `# Namespace:` line, holding MaxDefs field-less definitions in all,   *)
(* of any kind and named A or B.                                           *)
(***************************************************************************)
MaxDefs == 3

Namespaces == {None, Some("sales"), Some("inventory")}

Definitions ==
    {H2(type, name, <<>>) : type \in {"model", "view", "enum", "interface"},
                            name \in {"A", "B"}}

NamespaceText(ns) == IF IsSome(ns) THEN <<H1(TRUE, Unwrap(ns))>> ELSE <<>>

InitNames ==
    \E ns1 \in Namespaces : \E ns2 \in Namespaces :
    \E defs1 \in SeqsUpTo(Definitions, MaxDefs) :
    \E defs2 \in SeqsUpTo(Definitions, MaxDefs - Len(defs1)) :
        ResolveInit(<< parse_string(NamespaceText(ns1) \o defs1, "a.m3l.md"),
                       parse_string(NamespaceText(ns2) \o defs2, "b.m3l.md") >>,
                    None)

SpecNames == InitNames /\ [][ResolveNext]_vars

(***************************************************************************)
(* The top-level definitions of the input in input order: by file, then by *)
(* line.  A definition is [name, kind, file, line, ns, pos].               *)
(***************************************************************************)
DefinitionsOfFile(i) ==
    LET f == files[i]
        of(nodes, kind) ==
            {[name |-> nodes[j].name, kind |-> kind, file |-> f.source,
              line |-> nodes[j].line, ns |-> f.namespace,
              pos |-> <<i, nodes[j].line>>] : j \in 1..Len(nodes)}
    IN of(f.models, "model") \cup of(f.enums, "enum")
          \cup of(f.interfaces, "interface") \cup of(f.views, "view")

InputDefinitions == UNION {DefinitionsOfFile(i) : i \in 1..Len(files)}

Before(d1, d2) ==
    \/ d1.pos[1] < d2.pos[1]
    \/ d1.pos[1] = d2.pos[1] /\ d1.pos[2] < d2.pos[2]

DefinitionsNamed(name) == {d \in InputDefinitions : d.name = name}

NamespacesOf(name) == {d.ns : d \in DefinitionsNamed(name)}

\* the second definition of the name in input order
SecondDefinition(name) ==
    CHOOSE d \in DefinitionsNamed(name) :
        Cardinality({e \in DefinitionsNamed(name) : Before(e, d)}) = 1

ErrorsWhere(P(_)) ==
    {i \in 1..Len(Unwrap(ast).errors) : P(Unwrap(ast).errors[i])}

DuplicateNameAt(d) ==
    ErrorsWhere(LAMBDA e : e.code = "M3L-E005" /\ e.file = d.file
                              /\ e.line = d.line) # {}

AmbiguityErrors(name) ==
    ErrorsWhere(LAMBDA e : e.code = "M3L-E008" /\ e.message.name = name)

DuplicateNameErrors(name) ==
    ErrorsWhere(LAMBDA e : e.code = "M3L-E005" /\ e.message.name = name)

(***************************************************************************)
(* C4: whenever two top-level definitions of any kinds share a name, the   *)
(* errors hold an M3L-E005 located at the later of the two.                *)
(***************************************************************************)
C4_DuplicateNameDiagnosedAtLater ==
    Resolved =>
        \A d1, d2 \in InputDefinitions :
            (d1.name = d2.name /\ Before(d1, d2)) => DuplicateNameAt(d2)

(***************************************************************************)
(* C5: when the two files declare different namespaces and both define a   *)
(* model of the same name, exactly one M3L-E008 and no M3L-E005 is emitted *)
(* for that name.                                                          *)
(***************************************************************************)
C5_CrossNamespaceModelOnlyAmbiguous ==
    Resolved =>
        \A name \in {"A", "B"} :
            ( /\ IsSome(files[1].namespace) /\ IsSome(files[2].namespace)
              /\ files[1].namespace # files[2].namespace
              /\ \A i \in 1..2 : \E j \in 1..Len(files[i].models) :
                    files[i].models[j].name = name )
            => /\ Cardinality(AmbiguityErrors(name)) = 1
               /\ DuplicateNameErrors(name) = {}

(***************************************************************************)
(* C6: M3L-E008 is emitted for a name exactly when the name is defined     *)
(* under two or more distinct namespaces (a file without a namespace line  *)
(* counting as one of its own), then exactly once and located at the       *)
(* second definition of the name in input order; a name defined twice      *)
(* under one namespace yields M3L-E005 and no M3L-E008.                    *)
(***************************************************************************)
C6_AmbiguityIffDistinctNamespaces ==
    Resolved =>
        \A name \in {"A", "B"} :
            /\ AmbiguityErrors(name) # {} <=> Cardinality(NamespacesOf(name)) >= 2
            /\ Cardinality(NamespacesOf(name)) >= 2 =>
                  /\ Cardinality(AmbiguityErrors(name)) = 1
                  /\ \A i \in AmbiguityErrors(name) :
                        /\ Unwrap(ast).errors[i].file = SecondDefinition(name).file
                        /\ Unwrap(ast).errors[i].line = SecondDefinition(name).line
            /\ (Cardinality(DefinitionsNamed(name)) >= 2
                    /\ Cardinality(NamespacesOf(name)) = 1) =>
                  /\ DuplicateNameErrors(name) # {}
                  /\ AmbiguityErrors(name) = {}

(***************************************************************************)
(* Inputs of resolve for the import rules: texts of @import lines.         *)
(*   - three files a, b, c, each importing up to MaxImports paths among    *)
(*     a, b, c and the path z of a file that is not supplied;              *)
(*   - four files around the diamond a -> b, a -> c, b -> d, c -> d, in    *)
(*     any order, where d may import a (closing two cycles) or z.          *)
(***************************************************************************)
MaxImports == 2

ImportText(paths) == [i \in 1..Len(paths) |-> ImportLine(paths[i])]

ImportPaths == {"a.m3l.md", "b.m3l.md", "c.m3l.md", "z.m3l.md"}

InitImports ==
    \E ia \in SeqsUpTo(ImportPaths, MaxImports) :
    \E ib \in SeqsUpTo(ImportPaths, MaxImports) :
    \E ic \in SeqsUpTo(ImportPaths, MaxImports) :
        ResolveInit(<< parse_string(ImportText(ia), "a.m3l.md"),
                       parse_string(ImportText(ib), "b.m3l.md"),
                       parse_string(ImportText(ic), "c.m3l.md") >>, None)

DiamondImportFiles(ia, ib, ic, id) ==
    << parse_string(ImportText(ia), "a.m3l.md"),
       parse_string(ImportText(ib), "b.m3l.md"),
       parse_string(ImportText(ic), "c.m3l.md"),
       parse_string(ImportText(id), "d.m3l.md") >>

InitDiamondImports ==
    \E ia \in {<<"b.m3l.md", "c.m3l.md">>, <<"c.m3l.md", "b.m3l.md">>} :
    \E ib \in {<<>>, <<"d.m3l.md">>} :
    \E ic \in {<<>>, <<"d.m3l.md">>} :
    \E id \in {<<>>, <<"a.m3l.md">>, <<"z.m3l.md">>} :
    \E order \in Perms(1..4) :
        ResolveInit([i \in 1..4 |->
                        DiamondImportFiles(ia, ib, ic, id)[order[i]]], None)

SpecImports == (InitImports \/ InitDiamondImports) /\ [][ResolveNext]_vars

(***************************************************************************)
(* The import graph restricted to the supplied files.                      *)
(***************************************************************************)
SuppliedFiles == 1..Len(files)

ImportEdge(f, g) == InSeq(files[g].source, files[f].imports)

\* a closed walk f1 -> f2 -> ... -> fm -> f1 through supplied files
IsImportCycle(walk) ==
    /\ \A i \in 1..(Len(walk) - 1) : ImportEdge(walk[i], walk[i + 1])
    /\ ImportEdge(walk[Len(walk)], walk[1])

HasImportCycle ==
    \E m \in 1..Len(files) : \E walk \in [1..m -> SuppliedFiles] :
        IsImportCycle(walk)

CircularImportErrors == ErrorsWhere(LAMBDA e : e.code = "M3L-E003")

(***************************************************************************)
(* C10: resolve emits at least one M3L-E003 exactly when the import graph  *)
(* restricted to the supplied files has a directed cycle; diamonds and     *)
(* imports of files that are not supplied yield none.                      *)
(***************************************************************************)
C10_CircularImportIffCycle ==
    Resolved => (CircularImportErrors # {} <=> HasImportCycle)

\* detect_circular_imports, the public entry, agrees on the same inputs
C10_DetectCircularImportsIffCycle ==
    (detect_circular_imports(file_imports_of(files)) # <<>>) <=> HasImportCycle

\* a cycle through three files, one of which also imports an unsupplied
\* file, has been reported
C10_Witness ==
    /\ Resolved
    /\ CircularImportErrors # {}
    /\ \E walk \in [1..3 -> SuppliedFiles] :
          /\ IsImportCycle(walk)
          /\ Cardinality({walk[i] : i \in 1..3}) = 3
          /\ \E i \in 1..3 : InSeq("z.m3l.md", files[walk[i]].imports)

\* the full diamond has been resolved without a report
C10_WitnessDiamond ==
    /\ Resolved
    /\ Len(files) = 4
    /\ CircularImportErrors = {}
    /\ \E a, b, c, d \in SuppliedFiles :
          /\ Cardinality({a, b, c, d}) = 4
          /\ ImportEdge(a, b) /\ ImportEdge(a, c)
          /\ ImportEdge(b, d) /\ ImportEdge(c, d)

(***************************************************************************)
(* The import graph as a set of edges between supplied files, and the      *)
(* graphs that consist of one simple cycle: `walk` lists the files of the  *)
(* cycle in import order, starting at its first file in input order.       *)
(***************************************************************************)
ImportEdges ==
    {e \in SuppliedFiles \X SuppliedFiles : ImportEdge(e[1], e[2])}

CycleEdges(walk) ==
    {<<walk[i], walk[(i % Len(walk)) + 1]>> : i \in 1..Len(walk)}

IsTheSimpleCycle(walk) ==
    /\ \A i, j \in 1..Len(walk) : walk[i] = walk[j] => i = j
    /\ \A i \in 1..Len(walk) : walk[1] <= walk[i]
    /\ ImportEdges = CycleEdges(walk)

SimpleCycles ==
    {walk \in UNION {[1..m -> SuppliedFiles] : m \in 1..Len(files)} :
        IsTheSimpleCycle(walk)}

ChainOf(walk) ==
    [i \in 1..(Len(walk) + 1) |->
        files[walk[IF i <= Len(walk) THEN i ELSE 1]].source]

(***************************************************************************)
(* C11: when the import graph of the supplied files consists of one simple *)
(* cycle, exactly one M3L-E003 is emitted and its message lists the chain  *)
(* in import order, from the first file of the cycle in input order back   *)
(* to that file.                                                           *)
(***************************************************************************)
C11_SimpleCycleReportedOnce ==
    Resolved =>
        \A walk \in SimpleCycles :
            /\ Cardinality(CircularImportErrors) = 1
            /\ \A i \in CircularImportErrors :
                  Unwrap(ast).errors[i].message.chain = ChainOf(walk)

ImportCount(f, g) ==
    Cardinality({i \in 1..Len(files[f].imports) :
                    files[f].imports[i] = files[g].source})

(***************************************************************************)
(* C11 amended: the same when every file of the cycle lists the import of  *)
(* its successor once.                                                     *)
(***************************************************************************)
C11_SimpleCycleOfSingleImportsReportedOnce ==
    Resolved =>
        \A walk \in SimpleCycles :
            (\A e \in CycleEdges(walk) : ImportCount(e[1], e[2]) = 1) =>
                /\ Cardinality(CircularImportErrors) = 1
                /\ \A i \in CircularImportErrors :
                      Unwrap(ast).errors[i].message.chain = ChainOf(walk)

\* the cycle a -> b -> c -> a has been reported once
C11_Witness ==
    /\ Resolved
    /\ \E walk \in SimpleCycles :
          /\ Len(walk) = 3
          /\ \A e \in CycleEdges(walk) : ImportCount(e[1], e[2]) = 1
    /\ Cardinality(CircularImportErrors) = 1

(***************************************************************************)
(* The argument text of an attribute, character by character.  A text is a *)
(* sequence of one-character strings and positions count from 0 as in the  *)
(* source: At(s, i) is bytes[i] and Slice(s, a, b) is s[a..b].  A slice    *)
(* whose end lies beyond the text panics in the source; the operators that *)
(* slice say so in their result.                                           *)
(***************************************************************************)
DQ == "\""
SQ == "'"
BT == "backtick"      \* the backtick character, written by name
BS == "\\"

At(s, i) == s[i + 1]
Slice(s, a, b) == SubSeq(s, a + 1, b)

\* lexer.rs find_closing_quote / find_closing_backtick: -1 when there is none
RECURSIVE closing_from(_, _, _)
closing_from(s, quote, i) ==
    IF i >= Len(s) THEN -1
    ELSE IF At(s, i) = BS THEN closing_from(s, quote, i + 2)
    ELSE IF At(s, i) = quote THEN i
    ELSE closing_from(s, quote, i + 1)

find_closing_quote(s, open_pos) == closing_from(s, DQ, open_pos + 1)
find_closing_backtick(s, open_pos) == closing_from(s, BT, open_pos + 1)

\* str::find of one character from position `from` on: -1 when there is none
FindChar(s, c, from) ==
    LET hits == {i \in from..(Len(s) - 1) : At(s, i) = c}
    IN IF hits = {} THEN -1 ELSE CHOOSE i \in hits : \A j \in hits : i <= j

\* lexer.rs parse_attr_args_string, for texts of quotes, backslashes, commas
\* and letters (an unquoted token of such a text is a plain string)
RECURSIVE attr_args_from(_, _, _)
attr_args_from(s, pos, args) ==
    IF pos >= Len(s) THEN args
    ELSE IF At(s, pos) = "," THEN attr_args_from(s, pos + 1, args)
    ELSE IF At(s, pos) = DQ
    THEN LET close == find_closing_quote(s, pos)
         IN IF close >= 0
            THEN attr_args_from(s, close + 1,
                    Append(args, StrArg(Slice(s, pos + 1, close))))
            ELSE attr_args_from(s, pos + 1, args)
    ELSE IF At(s, pos) = BT
    THEN LET close == find_closing_backtick(s, pos)
         IN IF close >= 0
            THEN attr_args_from(s, close + 1,
                    Append(args, StrArg(Slice(s, pos, close + 1))))
            ELSE attr_args_from(s, pos + 1, args)
    ELSE IF At(s, pos) = SQ
    THEN LET close == FindChar(s, SQ, pos + 1)
         IN IF close >= 0
            THEN attr_args_from(s, close + 1,
                    Append(args, StrArg(Slice(s, pos + 1, close))))
            ELSE attr_args_from(s, pos + 1, args)
    ELSE LET comma == FindChar(s, ",", pos)
             stop == IF comma >= 0 THEN comma ELSE Len(s)
         IN attr_args_from(s, stop, Append(args, StrArg(Slice(s, pos, stop))))

parse_attr_args_string(s) == attr_args_from(s, 0, <<>>)

\* parser.rs split_computed_raw_args: the expression raw[..=i], or a panic
\* when i is not a position of the text
split_computed_raw_args(raw) ==
    IF raw = <<>> THEN [panicked |-> FALSE, expression |-> raw]
    ELSE IF At(raw, 0) \in {DQ, SQ, BT}
    THEN LET hit == closing_from(raw, At(raw, 0), 1)
         IN IF hit < 0 THEN [panicked |-> TRUE, expression |-> <<>>]
            ELSE [panicked |-> FALSE, expression |-> Slice(raw, 0, hit + 1)]
    ELSE [panicked |-> FALSE, expression |-> raw]

RECURSIVE trim_start_matches(_, _)
trim_start_matches(s, chars) ==
    IF s # <<>> /\ Head(s) \in chars THEN trim_start_matches(Tail(s), chars)
    ELSE s

RECURSIVE trim_end_matches(_, _)
trim_end_matches(s, chars) ==
    IF s # <<>> /\ s[Len(s)] \in chars
    THEN trim_end_matches(SubSeq(s, 1, Len(s) - 1), chars)
    ELSE s

\* parser.rs build_field_node, lines 1017-1045: the computed record made of
\* the arguments of @computed_raw
computed_raw_def(args) ==
    IF args # <<>> /\ args[1].t = "String"
    THEN LET parts == split_computed_raw_args(args[1].v)
         IN IF parts.panicked
            THEN [panicked |-> TRUE, computed |-> None]
            ELSE [panicked |-> FALSE,
                  computed |-> Some([expression |->
                        trim_end_matches(
                            trim_start_matches(parts.expression, {DQ, SQ, BT}),
                            {DQ, SQ, BT}),
                      platform |-> None])]
    ELSE [panicked |-> FALSE, computed |-> None]

(***************************************************************************)
(* The field line `- f: string @computed_raw(TEXT)` for every TEXT of at   *)
(* most MaxChars characters among quotes, backslash, comma and a letter:   *)
(* the lexer decodes the arguments, then build_field_node builds the       *)
(* computed record.                                                        *)
(***************************************************************************)
MaxChars == 4

TextChars == {DQ, SQ, BT, BS, ",", "a"}

LexAttributeArgs ==
    /\ scan.pc = "lex"
    /\ scan' = [scan EXCEPT !.pc = "build",
                            !.args = parse_attr_args_string(scan.text)]
    /\ UNCHANGED <<alphabet, st, n, last, result, resolverVars>>

BuildComputedRaw ==
    /\ scan.pc = "build"
    /\ scan' = [scan EXCEPT
                  !.pc = IF computed_raw_def(scan.args).panicked
                         THEN "panicked" ELSE "done",
                  !.computed = computed_raw_def(scan.args).computed]
    /\ UNCHANGED <<alphabet, st, n, last, result, resolverVars>>

ScanNext ==
    \/ LexAttributeArgs
    \/ BuildComputedRaw

InitComputedRaw ==
    \E text \in SeqsUpTo(TextChars, MaxChars) :
        /\ alphabet = {}
        /\ st = InitParserState("test.m3l.md")
        /\ n = 0
        /\ last = None
        /\ result = None
        /\ scan = [pc |-> "lex", text |-> text, args |-> <<>>, computed |-> None]
        /\ files = <<>>
        /\ project = None
        /\ pc = "scanning"
        /\ rs = <<>>
        /\ ast = None
        /\ validation = None
    /\ validation = None

SpecComputedRaw == InitComputedRaw /\ [][ScanNext]_vars

(***************************************************************************)
(* C12: parse_string returns a ParsedFile for every input text without     *)
(* panicking; malformed attribute arguments, such as an unbalanced quote   *)
(* inside @computed_raw(...), only degrade.                                *)
(***************************************************************************)
C12_MalformedArgumentsDoNotPanic == scan.pc # "panicked"

\* the input holds models only, every inherits entry names one of them, no
\* two own fields of the input share a name, and some model is its own
\* ancestor
CleanInheritanceCycle ==
    /\ \A i \in 1..Len(files) :
          files[i].interfaces = <<>> /\ files[i].views = <<>>
              /\ files[i].enums = <<>>
    /\ \A k \in 1..Len(InputModels) :
          \A i \in 1..Len(InputModels[k].inherits) :
              IsSome(LastNamed(InputModels, InputModels[k].inherits[i]))
    /\ UniqueFieldNames(Concat([k \in 1..Len(InputModels) |->
                                    InputModels[k].fields]))
    /\ \E k \in 1..Len(InputModels) :
          InputModels[k].name \in Ancestors(InputModels[k])

(***************************************************************************)
(* C13: an inheritance cycle among models whose own field names are        *)
(* pairwise distinct makes resolve emit no diagnostic of any code.         *)
(***************************************************************************)
C13_InheritanceCycleEmitsNoDiagnostic ==
    (Resolved /\ CleanInheritanceCycle) => Unwrap(ast).errors = <<>>

(***************************************************************************)
(* resolve_inheritance and collect_fields call by call.  The calls of      *)
(* collect_fields that have not returned are the sequence rs.frames, the   *)
(* innermost last; a frame is [name, pending], pending being the           *)
(* grandparents its loop has still to visit.  rs.pending is what the loop  *)
(* of resolve_inheritance (lines 370-386) has still to visit, and          *)
(* rs.inherited_fields, rs.resolved and rs.visiting are its three locals.  *)
(* MaxDepth caps the number of calls in progress.                          *)
(***************************************************************************)
MaxDepth == 5

\* a variant that never takes a name for seen
seen_never(name, resolved, visiting) == FALSE

\* collect_fields, line 307
seen_before(name, resolved, visiting) == name \in resolved \/ name \in visiting

\* resolve, line 164: the loop is entered
BeginInheritance ==
    /\ pc = "inheritance"
    /\ pc' = "inherit"
    /\ rs' = [model_idx |-> 0, active |-> FALSE, frames |-> <<>>,
              pending |-> <<>>, inherited_fields |-> <<>>, resolved |-> {},
              visiting |-> {}] @@ rs
    /\ UNCHANGED <<parserVars, files, project, ast, validation>>

\* resolve_inheritance, lines 279-290: the next model; one without parents
\* returns at once
EnterModel ==
    /\ pc = "inherit"
    /\ ~rs.active
    /\ rs.model_idx < Len(rs.all_models)
    /\ rs' = IF rs.all_models[rs.model_idx + 1].inherits = <<>>
             THEN [rs EXCEPT !.model_idx = @ + 1]
             ELSE [rs EXCEPT !.model_idx = @ + 1, !.active = TRUE,
                             !.pending = rs.all_models[rs.model_idx + 1].inherits,
                             !.inherited_fields = <<>>, !.resolved = {},
                             !.visiting = {}]
    /\ UNCHANGED <<parserVars, files, project, pc, ast, validation>>

\* the name the innermost loop visits next, and the state with it taken
NextParent(r) ==
    IF r.frames = <<>> THEN r.pending ELSE Last(r.frames).pending

TakeParent(r) ==
    IF r.frames = <<>> THEN [r EXCEPT !.pending = Tail(@)]
    ELSE [r EXCEPT !.frames[Len(r.frames)].pending = Tail(@)]

\* collect_fields, lines 307-337: a call up to its loop over the grandparents
CallCollectFields ==
    /\ pc = "inherit"
    /\ rs.active
    /\ Len(rs.frames) < MaxDepth
    /\ NextParent(rs) # <<>>
    /\ LET name == Head(NextParent(rs))
           r == TakeParent(rs)
           parent == find_parent(name, rs)
       IN rs' = IF seen_before(name, rs.resolved, rs.visiting) THEN r
                ELSE IF parent = None
                THEN [r EXCEPT !.errors =
                        IF name \notin DOMAIN rs.all_named
                        THEN Append(@, unresolved_error(name,
                                            rs.all_models[rs.model_idx]))
                        ELSE @]
                ELSE [r EXCEPT !.visiting = @ \cup {name},
                               !.frames = Append(@,
                                    [name |-> name,
                                     pending |-> Unwrap(parent).inherits])]
    /\ UNCHANGED <<parserVars, files, project, pc, ast, validation>>

\* collect_fields, lines 356-367: after the loop, the parent's fields are
\* added and the call returns
ReturnCollectFields ==
    /\ pc = "inherit"
    /\ rs.active
    /\ rs.frames # <<>>
    /\ Last(rs.frames).pending = <<>>
    /\ rs' = [rs EXCEPT
                !.inherited_fields = add_parent_fields(@,
                    Unwrap(find_parent(Last(rs.frames).name, rs)).fields),
                !.visiting = @ \ {Last(rs.frames).name},
                !.resolved = @ \cup {Last(rs.frames).name},
                !.frames = SubSeq(@, 1, Len(@) - 1)]
    /\ UNCHANGED <<parserVars, files, project, pc, ast, validation>>

\* resolve_inheritance, lines 388-406
LeaveModel ==
    /\ pc = "inherit"
    /\ rs.active
    /\ rs.frames = <<>>
    /\ rs.pending = <<>>
    /\ LET kept == filtered_inherited(rs.inherited_fields,
                        override_names(rs.all_models[rs.model_idx].fields))
       IN rs' = [rs EXCEPT !.active = FALSE,
                           !.all_models[rs.model_idx].fields =
                                IF kept # <<>> THEN kept \o @ ELSE @]
    /\ UNCHANGED <<parserVars, files, project, pc, ast, validation>>

\* resolve, line 174: the loop is left
EndInheritance ==
    /\ pc = "inherit"
    /\ ~rs.active
    /\ rs.model_idx = Len(rs.all_models)
    /\ pc' = "fields"
    /\ UNCHANGED <<parserVars, files, project, rs, ast, validation>>

(***************************************************************************)
(* detect_circular_imports_internal and dfs_detect_cycle call by call.     *)
(* rs.calls holds the calls of dfs_detect_cycle that have not returned,    *)
(* a call being [node, pending] with the imports its loop has still to     *)
(* visit; rs.root_idx counts the files the loop of lines 460-464 has       *)
(* taken; rs.visited, rs.rec_stack and rs.import_errors are the locals of  *)
(* lines 449-458.                                                          *)
(***************************************************************************)
\* dfs_detect_cycle, lines 476-479: the entry of a call for `node`
enter_dfs(node, adj, r) ==
    [r EXCEPT !.visited = @ \cup {node},
              !.rec_stack = Append(@, node),
              !.calls = Append(@, [node |-> node,
                                   pending |-> IF node \in DOMAIN adj
                                               THEN adj[node] ELSE <<>>])]

\* resolve, lines 215-219, and lines 449-458
BeginImportDfs ==
    /\ pc = "imports"
    /\ pc' = "import_dfs"
    /\ rs' = [root_idx |-> 0, calls |-> <<>>, visited |-> {},
              rec_stack |-> <<>>, import_errors |-> <<>>,
              adj |-> adj_of(file_imports_of(files))] @@ rs
    /\ UNCHANGED <<parserVars, files, project, ast, validation>>

\* lines 460-464: the next file of the input
VisitRoot ==
    /\ pc = "import_dfs"
    /\ rs.calls = <<>>
    /\ rs.root_idx < Len(files)
    /\ LET src == file_imports_of(files)[rs.root_idx + 1].src
           r == [rs EXCEPT !.root_idx = @ + 1]
       IN rs' = IF src \notin rs.visited THEN enter_dfs(src, rs.adj, r) ELSE r
    /\ UNCHANGED <<parserVars, files, project, pc, ast, validation>>

\* dfs_detect_cycle, lines 480-506: one turn of the loop of the innermost call
FollowImport ==
    /\ pc = "import_dfs"
    /\ rs.calls # <<>>
    /\ Len(rs.calls) < MaxDepth
    /\ Last(rs.calls).pending # <<>>
    /\ LET node == Last(rs.calls).node
           import == Head(Last(rs.calls).pending)
           r == [rs EXCEPT !.calls[Len(rs.calls)].pending = Tail(@)]
       IN rs' = IF import \notin rs.visited
                THEN IF import \in DOMAIN rs.adj
                     THEN enter_dfs(import, rs.adj, r)
                     ELSE r
                ELSE IF rec_stack_contains(rs.rec_stack, import)
                     THEN [r EXCEPT !.import_errors =
                            Append(@, circular_error(node, import, rs.rec_stack))]
                     ELSE r
    /\ UNCHANGED <<parserVars, files, project, pc, ast, validation>>

\* dfs_detect_cycle, line 509
ReturnDfs ==
    /\ pc = "import_dfs"
    /\ rs.calls # <<>>
    /\ Last(rs.calls).pending = <<>>
    /\ rs' = [rs EXCEPT !.rec_stack = SubSeq(@, 1, Len(@) - 1),
                        !.calls = SubSeq(@, 1, Len(@) - 1)]
    /\ UNCHANGED <<parserVars, files, project, pc, ast, validation>>

\* line 466 and resolve, line 219
EndImportDfs ==
    /\ pc = "import_dfs"
    /\ rs.calls = <<>>
    /\ rs.root_idx = Len(files)
    /\ rs' = [rs EXCEPT !.errors = @ \o rs.import_errors]
    /\ pc' = "return"
    /\ UNCHANGED <<parserVars, files, project, ast, validation>>

StepNext ==
    \/ Collect
    \/ BuildNameMaps
    \/ CheckAmbiguity
    \/ BeginInheritance
    \/ EnterModel
    \/ CallCollectFields
    \/ ReturnCollectFields
    \/ LeaveModel
    \/ EndInheritance
    \/ CheckDuplicateFields
    \/ TagRegistered
    \/ BeginImportDfs
    \/ VisitRoot
    \/ FollowImport
    \/ ReturnDfs
    \/ EndImportDfs
    \/ Return

(***************************************************************************)
(* Inputs of resolve for termination: file a imports ia and holds the      *)
(* model A, file b imports ib and holds the models B and C; the inherits   *)
(* lists range over A, B, C and the undefined X with MaxParents entries in *)
(* all, so that self-references, two- and three-cycles and cycles beside   *)
(* a chain all occur; a imports b or nothing, and b imports a, itself and  *)
(* the unsupplied z.                                                       *)
(***************************************************************************)
MaxParents == 3

StepFiles(ia, ib, iA, iB, iC) ==
    << parse_string(ImportText(ia) \o ElementText("model", "A", iA, <<FieldX>>),
                    "a.m3l.md"),
       parse_string(ImportText(ib) \o ElementText("model", "B", iB, <<FieldY>>)
                        \o ElementText("model", "C", iC, <<>>), "b.m3l.md") >>

StepInputs ==
    {StepFiles(ia, ib, inh[1], inh[2], inh[3]) :
        ia \in {<<>>, <<"b.m3l.md">>},
        ib \in {<<"a.m3l.md", "b.m3l.md", "z.m3l.md">>},
        inh \in {t \in InheritsUpTo(MaxParents) \X InheritsUpTo(MaxParents)
                        \X InheritsUpTo(MaxParents) :
                    Len(t[1]) + Len(t[2]) + Len(t[3]) <= MaxParents}}

\* before the call of resolve
InitSteps ==
    /\ alphabet = {}
    /\ st = InitParserState("")
    /\ n = 0
    /\ last = None
    /\ result = None
    /\ scan = [pc |-> "idle"]
    /\ files = <<>>
    /\ project = None
    /\ pc = "call"
    /\ rs = InitResolveState
    /\ ast = None
    /\ validation = None

\* resolve is called with the files of an input
CallResolve ==
    /\ pc = "call"
    /\ \E fs \in StepInputs : files' = fs
    /\ pc' = "collect"
    /\ UNCHANGED <<parserVars, project, rs, ast, validation>>

\* resolve runs to its end: a step that can be taken is taken
SpecSteps ==
    InitSteps /\ [][CallResolve \/ StepNext]_vars
              /\ WF_vars(CallResolve \/ StepNext)

NoRepeat(seq) == \A i, j \in 1..Len(seq) : seq[i] = seq[j] => i = j

\* the calls in progress are calls for pairwise distinct defined names, and
\* for pairwise distinct supplied files
CallsAreBounded ==
    /\ pc = "inherit" =>
          /\ NoRepeat([i \in 1..Len(rs.frames) |-> rs.frames[i].name])
          /\ \A i \in 1..Len(rs.frames) : IsSome(Referent(rs.frames[i].name))
    /\ pc = "import_dfs" =>
          /\ NoRepeat(rs.rec_stack)
          /\ Len(rs.calls) = Len(rs.rec_stack)
          /\ \A i \in 1..Len(rs.rec_stack) :
                \E f \in SuppliedFiles : files[f].source = rs.rec_stack[i]

\* what the phases of resolve taken whole return for the files, when no
\* name is ambiguous
ResolveWhole ==
    LET r1 == build_name_maps(files, collect(files, InitResolveState))
        r2 == resolve_all_inheritance(1, r1)
        r3 == [r2 EXCEPT !.errors =
                 check_all_duplicate_fields(r2.all_models \o r2.all_views, @)]
        r4 == tag_registered(r3)
        r5 == [r4 EXCEPT !.errors =
                 @ \o detect_circular_imports_internal(file_imports_of(files))]
    IN M3lAstOf(files, project, r5)

\* the calls taken one by one return what the phases taken whole return
StepsAgreeWithResolve == pc = "done" => Unwrap(ast) = ResolveWhole

\* C14: resolve terminates on every input, inheritance cycles,
\* self-references and import cycles included, and at no moment are two
\* calls in progress for the same name or for the same file.
C14_ResolveTerminates == <>(pc = "done") /\ []CallsAreBounded

InheritsCycle ==
    \E i \in 1..Len(InputModels) :
        InputModels[i].name \in Ancestors(InputModels[i])

C14_Witness == pc = "done" /\ InheritsCycle /\ HasImportCycle

UnresolvedErrors(model, name) ==
    ErrorsWhere(LAMBDA e : /\ e.code = "M3L-E007"
                           /\ e.file = model.source
                           /\ e.line = model.line
                           /\ e.message.name = name)

\* C15: for every model M and every name P reached from M along inherits,
\* an M3L-E007 at M's file and line names P exactly when P is not the name
\* of a defined model or interface.
C15_UnresolvedParentIffUndefined ==
    Resolved =>
        \A i \in 1..Len(InputModels) :
            \A name \in Ancestors(InputModels[i]) :
                UnresolvedErrors(InputModels[i], name) # {}
                    <=> ~IsSome(Referent(name))

(***************************************************************************)
(* validator.rs.  A loop that pushes diagnostics is the concatenation, in  *)
(* the order of the loop, of what each turn pushes.                        *)
(***************************************************************************)
\* catalogs.rs TYPE_CATALOG
TYPE_CATALOG ==
    { "string", "text", "integer", "long", "decimal", "float", "boolean",
      "date", "time", "timestamp", "identifier", "binary", "email", "phone",
      "url", "money", "percentage", "object", "json", "enum", "map",
      "datetime" }

DEPRECATED_CASCADE_ATTRS == {"cascade", "no_action", "set_null", "restrict"}

\* fields.iter().find(|f| f.name == name)
find_field(fields, name) ==
    LET hits == {i \in 1..Len(fields) : fields[i].name = name}
    IN IF hits = {} THEN None
       ELSE Some(fields[CHOOSE i \in hits : \A j \in hits : i <= j])

\* .attributes.iter().any(|a| a.name == "reference" || a.name == "fk")
has_reference(field) ==
    \E i \in 1..Len(field.attributes) :
        field.attributes[i].name \in {"reference", "fk"}

\* validate, lines 21-22: collecting into a HashMap keeps the last model of
\* a name
validator_model_map(all_models) ==
    [name \in {all_models[i].name : i \in 1..Len(all_models)} |->
        LET hits == {i \in 1..Len(all_models) : all_models[i].name = name}
        IN all_models[CHOOSE i \in hits : \A j \in hits : j <= i]]

validate_rollup_reference(field, rollup, model_map) ==
    IF rollup.target \notin DOMAIN model_map THEN <<>>
    ELSE LET fk_field == find_field(model_map[rollup.target].fields, rollup.fk)
         IN IF fk_field = None THEN <<>>
            ELSE IF has_reference(Unwrap(fk_field)) THEN <<>>
            ELSE <<[code |-> "M3L-E001", severity |-> "error", file |-> field.loc.file,
                    line |-> field.loc.line,
                    message |-> [text |-> "@rollup targets a field which has no @reference or @fk attribute",
                                 name |-> field.name,
                                 target |-> rollup.target, fk |-> rollup.fk]]>>

validate_lookup_reference(field, model, lookup) ==
    LET segments == split_dots(lookup.path)
        fk_field == find_field(model.fields, segments[1])
    IN IF Len(segments) < 2 THEN <<>>
       ELSE IF fk_field = None THEN <<>>
       ELSE IF has_reference(Unwrap(fk_field)) THEN <<>>
       ELSE <<[code |-> "M3L-E002", severity |-> "error", file |-> field.loc.file,
               line |-> field.loc.line,
               message |-> [text |-> "@lookup references FK which has no @reference or @fk attribute",
                            name |-> field.name, fk |-> segments[1]]]>>

\* validate, lines 47-65
view_source_errors(views, model_map) ==
    Concat([i \in 1..Len(views) |->
        IF /\ IsSome(views[i].source_def)
           /\ IsSome(Unwrap(views[i].source_def).from)
           /\ Unwrap(Unwrap(views[i].source_def).from) \notin DOMAIN model_map
        THEN <<[code |-> "M3L-E004", severity |-> "error", file |-> views[i].source,
                line |-> views[i].line,
                message |-> [text |-> "View references model which is not defined",
                             name |-> views[i].name,
                             from |-> Unwrap(Unwrap(views[i].source_def).from)]]>>
        ELSE <<>>])

\* validate, lines 68-92
redundant_duplicate_errors(model) ==
    Concat([i \in 1..Len(model.fields) |->
        IF \E j \in 1..(i - 1) : model.fields[j].name = model.fields[i].name
        THEN <<[code |-> "M3L-E006", severity |-> "error", file |-> model.fields[i].loc.file,
                line |-> model.fields[i].loc.line,
                message |-> [text |-> "Duplicate field name",
                             name |-> model.fields[i].name,
                             kind |-> model_type_name(model),
                             model |-> model.name]]>>
        ELSE <<>>])

\* validate, lines 95-104
defined_names_of(a) ==
    {a.models[i].name : i \in 1..Len(a.models)}
        \cup {a.views[i].name : i \in 1..Len(a.views)}
        \cup {a.enums[i].name : i \in 1..Len(a.enums)}
        \cup {a.interfaces[i].name : i \in 1..Len(a.interfaces)}

is_known_type(type_name, defined_names) ==
    \/ type_name \in TYPE_CATALOG
    \/ type_name \in defined_names
    \/ /\ Len(split_dots(type_name)) > 1
       /\ Last(split_dots(type_name)) \in defined_names

RECURSIVE validate_field_types(_, _, _)
validate_field_types(fields, model, defined_names) ==
    Concat([i \in 1..Len(fields) |->
        (IF /\ IsSome(fields[i].field_type)
            /\ Unwrap(fields[i].field_type) # ""
            /\ ~is_known_type(Unwrap(fields[i].field_type), defined_names)
         THEN <<[code |-> "M3L-E009", severity |-> "error", file |-> fields[i].loc.file,
                 line |-> fields[i].loc.line,
                 message |-> [text |-> "Undefined type",
                              type |-> Unwrap(fields[i].field_type),
                              name |-> fields[i].name,
                              kind |-> model_type_name(model),
                              model |-> model.name]]>>
         ELSE <<>>)
        \o (IF IsSome(fields[i].fields)
            THEN validate_field_types(Unwrap(fields[i].fields), model,
                                      defined_names)
            ELSE <<>>)])

RECURSIVE check_deprecated_syntax(_)
check_deprecated_syntax(fields) ==
    Concat([i \in 1..Len(fields) |->
        (IF fields[i].field_type = Some("datetime")
         THEN <<[code |-> "M3L-W003", severity |-> "warning", file |-> fields[i].loc.file,
                 line |-> fields[i].loc.line,
                 message |-> [text |-> "Deprecated type", type |-> "datetime",
                              name |-> fields[i].name]]>>
         ELSE <<>>)
        \o Concat([j \in 1..Len(fields[i].attributes) |->
                IF fields[i].attributes[j].name \in DEPRECATED_CASCADE_ATTRS
                THEN <<[code |-> "M3L-W003", severity |-> "warning", file |-> fields[i].loc.file,
                        line |-> fields[i].loc.line,
                        message |-> [text |-> "Deprecated attribute",
                                     attr |-> fields[i].attributes[j].name,
                                     name |-> fields[i].name]]>>
                ELSE <<>>])
        \o (IF IsSome(fields[i].fields)
            THEN check_deprecated_syntax(Unwrap(fields[i].fields))
            ELSE <<>>)])

(***************************************************************************)
(* validator.rs validate_relations_references.  The raw text of an entry   *)
(* is atomic here: whether it holds `>` and what RE_VIA (`via <field>`)    *)
(* captures in it are read from the texts the inputs are written with; any *)
(* other text of the inputs holds neither.                                 *)
(***************************************************************************)
RELATION_TEXTS ==
    { <<"> B via fk", TRUE, Some("fk")>>, <<"> B via id", TRUE, Some("id")>>,
      <<"> B via zz", TRUE, Some("zz")>>, <<"> B", TRUE, None>>,
      <<"< B via id", FALSE, Some("id")>> }

contains_gt(raw) == \E t \in RELATION_TEXTS : t[1] = raw /\ t[2]

RE_VIA(raw) ==
    IF \E t \in RELATION_TEXTS : t[1] = raw
    THEN (CHOOSE t \in RELATION_TEXTS : t[1] = raw)[3]
    ELSE None

validate_relations_references(model) ==
    Concat([i \in 1..Len(model.sections.relations) |->
        LET rel == model.sections.relations[i]
            from_field == IF IsSome(rel.from) THEN rel.from
                          ELSE IF IsSome(rel.raw) THEN RE_VIA(Unwrap(rel.raw))
                          ELSE None
            fk_field == IF IsSome(from_field)
                        THEN find_field(model.fields, Unwrap(from_field))
                        ELSE None
        IN IF rel.type = Some("directive") THEN <<>>
           ELSE IF rel.raw = None THEN <<>>
           ELSE IF ~contains_gt(Unwrap(rel.raw)) THEN <<>>
           ELSE IF from_field = None THEN <<>>
           ELSE IF fk_field = None THEN <<>>
           ELSE IF has_reference(Unwrap(fk_field)) THEN <<>>
           ELSE <<[code |-> "M3L-E010", severity |-> "error",
                   file |-> IF IsSome(rel.loc) THEN Unwrap(rel.loc).file
                            ELSE model.source,
                   line |-> IF IsSome(rel.loc) THEN Unwrap(rel.loc).line
                            ELSE model.line,
                   message |-> [text |-> "Relations entry references FK which has no @reference or @fk attribute",
                                fk |-> Unwrap(from_field),
                                kind |-> model_type_name(model),
                                model |-> model.name]]>>])

\* validate, lines 123-127: collecting into a HashMap keeps the last entry
\* of a name
registry_map_of(attribute_registry) ==
    [name \in {attribute_registry[i].name : i \in 1..Len(attribute_registry)} |->
        LET hits == {i \in 1..Len(attribute_registry) :
                        attribute_registry[i].name = name}
        IN attribute_registry[CHOOSE i \in hits : \A j \in hits : j <= i]]

\* validate_registry_attrs, what one argument of a registered attribute pushes
registry_arg_warnings(reg, arg, attr, field, model) ==
    LET warning(code, text) ==
            [code |-> code, severity |-> "warning", file |-> field.loc.file,
             line |-> field.loc.line,
             message |-> [text |-> text, attr |-> attr.name, arg |-> arg.v,
                          name |-> field.name,
                          kind |-> model_type_name(model),
                          model |-> model.name]]
    IN (IF reg.attr_type = "number" /\ arg.t = "String"
        THEN <<warning("M3L-W005", "Attribute expects number argument but got string")>>
        ELSE IF reg.attr_type = "string" /\ arg.t = "Number"
        THEN <<warning("M3L-W005", "Attribute expects string argument but got number")>>
        ELSE <<>>)
       \o (IF /\ IsSome(reg.range)
              /\ arg.t = "Number"
              /\ (\/ number_of(arg.v) < Unwrap(reg.range)[1]
                  \/ number_of(arg.v) > Unwrap(reg.range)[2])
           THEN <<warning("M3L-W006", "Attribute argument is outside range")>>
           ELSE <<>>)

RECURSIVE validate_registry_attrs(_, _, _)
validate_registry_attrs(fields, model, registry_map) ==
    Concat([i \in 1..Len(fields) |->
        Concat([j \in 1..Len(fields[i].attributes) |->
            LET attr == fields[i].attributes[j]
            IN IF attr.name \in DOMAIN registry_map /\ IsSome(attr.args)
               THEN Concat([k \in 1..Len(Unwrap(attr.args)) |->
                        registry_arg_warnings(registry_map[attr.name],
                                              Unwrap(attr.args)[k], attr,
                                              fields[i], model)])
               ELSE <<>>])
        \o (IF IsSome(fields[i].fields)
            THEN validate_registry_attrs(Unwrap(fields[i].fields), model,
                                         registry_map)
            ELSE <<>>)])

RECURSIVE SumOf(_)
SumOf(numbers) ==
    IF numbers = <<>> THEN 0 ELSE Head(numbers) + SumOf(Tail(numbers))

\* check_field_line_length; the fields of the inputs have no label and no
\* default value and are not nullable
field_line_length(field) ==
    2 + Len(field.name)
      + (IF IsSome(field.field_type) THEN 2 + Len(Unwrap(field.field_type))
         ELSE 0)
      + SumOf([j \in 1..Len(field.attributes) |->
                    2 + Len(field.attributes[j].name)])
      + (IF IsSome(field.description) THEN 3 + Len(Unwrap(field.description))
         ELSE 0)

check_field_line_length(field) ==
    IF field_line_length(field) > 80
    THEN <<[code |-> "M3L-W001", severity |-> "warning", file |-> field.loc.file,
            line |-> field.loc.line,
            message |-> [text |-> "Field line length exceeds 80 character guideline",
                         name |-> field.name,
                         len |-> field_line_length(field)]]>>
    ELSE <<>>

\* validate, line 144
hops_of(path) == Len(split_dots(path))

\* a variant that reports the long chain with the severity of an error
lookup_chain_warning_as_error(field) ==
    IF /\ field.kind = "Lookup"
       /\ IsSome(field.lookup)
       /\ hops_of(Unwrap(field.lookup).path) > 3
    THEN <<[code |-> "M3L-W004", severity |-> "error", file |-> field.loc.file,
            line |-> field.loc.line,
            message |-> [text |-> "Lookup chain exceeds 3 hops",
                         path |-> Unwrap(field.lookup).path,
                         hops |-> hops_of(Unwrap(field.lookup).path)]]>>
    ELSE <<>>

\* validate, lines 142-159
lookup_chain_warning(field) ==
    IF /\ field.kind = "Lookup"
       /\ IsSome(field.lookup)
       /\ hops_of(Unwrap(field.lookup).path) > 3
    THEN <<[code |-> "M3L-W004", severity |-> "warning", file |-> field.loc.file,
            line |-> field.loc.line,
            message |-> [text |-> "Lookup chain exceeds 3 hops",
                         path |-> Unwrap(field.lookup).path,
                         hops |-> hops_of(Unwrap(field.lookup).path)]]>>
    ELSE <<>>

RECURSIVE check_nesting_depth(_, _, _)
check_nesting_depth(fields, depth, model) ==
    Concat([i \in 1..Len(fields) |->
        IF IsSome(fields[i].fields) /\ Unwrap(fields[i].fields) # <<>>
        THEN (IF depth >= 3
              THEN <<[code |-> "M3L-W002", severity |-> "warning", file |-> fields[i].loc.file,
                      line |-> fields[i].loc.line,
                      message |-> [text |-> "Object nesting depth exceeds 3 levels",
                                   name |-> fields[i].name,
                                   model |-> model.name]]>>
              ELSE <<>>)
             \o check_nesting_depth(Unwrap(fields[i].fields), depth + 1, model)
        ELSE <<>>])

\* a variant in which strict mode reports the deprecated syntax once more
strict_warnings_with_deprecated(all_models) ==
    Concat([m \in 1..Len(all_models) |->
        check_deprecated_syntax(all_models[m].fields)
        \o Concat([i \in 1..Len(all_models[m].fields) |->
                    check_field_line_length(all_models[m].fields[i])
                        \o lookup_chain_warning(all_models[m].fields[i])])
        \o check_nesting_depth(all_models[m].fields, 1, all_models[m])])

\* validate, lines 135-165
strict_warnings(all_models) ==
    Concat([m \in 1..Len(all_models) |->
        Concat([i \in 1..Len(all_models[m].fields) |->
                    check_field_line_length(all_models[m].fields[i])
                        \o lookup_chain_warning(all_models[m].fields[i])])
        \o check_nesting_depth(all_models[m].fields, 1, all_models[m])])

validate(a, options) ==
    LET all_models == a.models \o a.views
        model_map == validator_model_map(all_models)
        PerField(check(_, _)) ==
            Concat([m \in 1..Len(all_models) |->
                Concat([i \in 1..Len(all_models[m].fields) |->
                            check(all_models[m], all_models[m].fields[i])])])
        PerModel(check(_)) ==
            Concat([m \in 1..Len(all_models) |-> check(all_models[m])])
        rollup_errors ==
            PerField(LAMBDA model, field :
                IF field.kind = "Rollup" /\ IsSome(field.rollup)
                THEN validate_rollup_reference(field, Unwrap(field.rollup),
                                               model_map)
                ELSE <<>>)
        lookup_errors ==
            PerField(LAMBDA model, field :
                IF field.kind = "Lookup" /\ IsSome(field.lookup)
                THEN validate_lookup_reference(field, model,
                                               Unwrap(field.lookup))
                ELSE <<>>)
        type_errors ==
            PerModel(LAMBDA model :
                validate_field_types(model.fields, model, defined_names_of(a)))
    IN [ errors |-> a.errors \o rollup_errors \o lookup_errors
                        \o view_source_errors(a.views, model_map)
                        \o PerModel(redundant_duplicate_errors)
                        \o type_errors
                        \o PerModel(validate_relations_references),
         warnings |-> a.warnings
                        \o PerModel(LAMBDA model :
                                check_deprecated_syntax(model.fields))
                        \o (IF a.attribute_registry # <<>>
                            THEN PerModel(LAMBDA model :
                                    validate_registry_attrs(model.fields, model,
                                        registry_map_of(a.attribute_registry)))
                            ELSE <<>>)
                        \o (IF options.strict THEN strict_warnings(all_models)
                            ELSE <<>>) ]

\* validate is called on the AST resolve returned, with either option
Validate ==
    /\ pc = "done"
    /\ validation = None
    /\ \E strict \in BOOLEAN :
          validation' = Some([options |-> [strict |-> strict],
                              result |-> validate(Unwrap(ast),
                                                  [strict |-> strict])])
    /\ UNCHANGED <<parserVars, files, project, pc, rs, ast>>

ValidateNext == ResolveNext \/ Validate

(***************************************************************************)
(* Inputs of validate for the rollup rule.  File a holds the element A     *)
(* with one field n carrying @rollup(target, count): A is a model, a view  *)
(* or an interface, or a model whose object field o holds n as a           *)
(* sub-field.  File b holds the model B, the view V and the interface I,   *)
(* each with the same fields: none, or a field fk that is plain, carries   *)
(* @reference or @fk, or gets `reference: A` as a nested item.             *)
(***************************************************************************)
RollupArguments ==
    {join_dots(segs) : segs \in RollupTargets \ {<<"Order", "customer_id">>}}
        \cup {"B"}

RollupLine(target) ==
    FieldLine("n", Some("integer"),
              <<Attr("rollup", <<StrArg(target), StrArg("count")>>)>>, FALSE)

RollupHolders(target) ==
    { ElementText("model", "A", <<>>, <<RollupLine(target)>>),
      ElementText("view", "A", <<>>, <<RollupLine(target)>>),
      ElementText("interface", "A", <<>>, <<RollupLine(target)>>),
      ElementText("model", "A", <<>>,
        << FieldLine("o", Some("object"), <<>>, FALSE),
           NestedLine("n", "integer", Some("integer"),
                      <<Attr("rollup", <<StrArg(target), StrArg("count")>>)>>) >>) }

FkFields ==
    { <<>>,
      <<FieldLine("fk", Some("identifier"), <<>>, FALSE)>>,
      <<FieldLine("fk", Some("identifier"),
                  <<Attr("reference", <<StrArg("A")>>)>>, FALSE)>>,
      <<FieldLine("fk", Some("identifier"), <<Attr("fk", <<>>)>>, FALSE)>>,
      <<FieldLine("fk", Some("identifier"), <<>>, FALSE),
        NestedLine("reference", "A", Some("A"), <<>>)>> }

InitRollup ==
    \E target \in RollupArguments :
    \E holder \in RollupHolders(target) :
    \E fk \in FkFields :
        ResolveInit(<< parse_string(holder, "a.m3l.md"),
                       parse_string(ElementText("model", "B", <<>>, fk)
                                \o ElementText("view", "V", <<>>, fk)
                                \o ElementText("interface", "I", <<>>, fk),
                                    "b.m3l.md") >>, None)

SpecRollup == InitRollup /\ [][ValidateNext]_vars

(***************************************************************************)
(* The rollup rule stated on the validated AST.                            *)
(***************************************************************************)
Validated == IsSome(validation)

ValidationErrors == Unwrap(validation).result.errors
ValidationWarnings == Unwrap(validation).result.warnings

AstElements ==
    Unwrap(ast).models \o Unwrap(ast).views \o Unwrap(ast).interfaces

RECURSIVE WithNested(_)
WithNested(fields) ==
    {fields[i] : i \in 1..Len(fields)}
        \cup UNION {IF IsSome(fields[i].fields)
                    THEN WithNested(Unwrap(fields[i].fields)) ELSE {} :
                    i \in 1..Len(fields)}

\* every field of the AST, top-level or nested
AstFields ==
    UNION {WithNested(AstElements[i].fields) : i \in 1..Len(AstElements)}

RollupFields == {f \in AstFields : f.kind = "Rollup" /\ IsSome(f.rollup)}

\* the models (stored models and views) of a name
ModelsNamed(name) ==
    {m \in {(Unwrap(ast).models \o Unwrap(ast).views)[i] :
                i \in 1..Len(Unwrap(ast).models \o Unwrap(ast).views)} :
        m.name = name}

FieldCarries(f, names) ==
    \E i \in 1..Len(f.attributes) : f.attributes[i].name \in names

\* the foreign key of the rollup is missing from the target, or is there
\* without @reference and without @fk
ForeignKeyUnusable(rollup, target) ==
    \A i \in 1..Len(target.fields) :
        target.fields[i].name = rollup.fk
            => ~FieldCarries(target.fields[i], {"reference", "fk"})

DiagnosedAt(diagnostics, code, f) ==
    \E i \in 1..Len(diagnostics) :
        /\ diagnostics[i].code = code
        /\ diagnostics[i].file = f.loc.file
        /\ diagnostics[i].line = f.loc.line
        /\ diagnostics[i].message.name = f.name

\* C16: for every rollup field whose target model is defined, validate
\* emits M3L-E001 for the field exactly when the foreign key named by the
\* rollup is missing from the target model or carries neither @reference
\* nor @fk.
C16_RollupErrorIffForeignKeyUnusable ==
    Validated =>
        \A f \in RollupFields :
            \A target \in ModelsNamed(Unwrap(f.rollup).target) :
                DiagnosedAt(ValidationErrors, "M3L-E001", f)
                    <=> ForeignKeyUnusable(Unwrap(f.rollup), target)

(***************************************************************************)
(* Inputs of validate for the type rule.  File a holds the element H, a    *)
(* model, a view or an interface, with one field f whose type is given on  *)
(* the field line, or by a nested `type:` item, or which is an object      *)
(* with the typed sub-field g.  File b holds the model B, the enum E, the  *)
(* interface I and the view V.                                             *)
(***************************************************************************)
TypeNames ==
    {"string", "B", "E", "I", "V", "Z"}
        \cup {join_dots(segs) : segs \in QualifiedTypes}

TypedFields ==
    { <<FieldLine("f", None, <<>>, FALSE)>>,
      <<FieldLine("f", Some("string"), <<>>, FALSE),
        NestedLine("type", "", None, <<>>)>> }
    \cup UNION { { <<FieldLine("f", Some(type), <<>>, FALSE)>>,
                   <<FieldLine("f", Some("string"), <<>>, FALSE),
                     NestedLine("type", type, Some(type), <<>>)>>,
                   <<FieldLine("f", Some("object"), <<>>, FALSE),
                     NestedLine("g", type, Some(type), <<>>)>> } :
                 type \in TypeNames }

InitTypes ==
    \E holder \in {"model", "view", "interface"} :
    \E fields \in TypedFields :
        ResolveInit(<< parse_string(ElementText(holder, "H", <<>>, fields),
                                    "a.m3l.md"),
                       parse_string(ElementText("model", "B", <<>>, <<>>)
                                \o ElementText("enum", "E", <<>>, <<>>)
                                \o ElementText("interface", "I", <<>>, <<>>)
                                \o ElementText("view", "V", <<>>, <<>>),
                                    "b.m3l.md") >>, None)

SpecTypes == InitTypes /\ [][ValidateNext]_vars

\* the names of the defined models, enums and interfaces
ModelEnumInterfaceNames ==
    {Unwrap(ast).models[i].name : i \in 1..Len(Unwrap(ast).models)}
        \cup {Unwrap(ast).enums[i].name : i \in 1..Len(Unwrap(ast).enums)}
        \cup {Unwrap(ast).interfaces[i].name :
                i \in 1..Len(Unwrap(ast).interfaces)}

UndefinedType(f) ==
    /\ IsSome(f.field_type)
    /\ Unwrap(f.field_type) # ""
    /\ Unwrap(f.field_type) \notin TYPE_CATALOG
    /\ Unwrap(f.field_type) \notin ModelEnumInterfaceNames
    /\ ~ \E segs \in DottedStrings :
            /\ join_dots(segs) = Unwrap(f.field_type)
            /\ Last(segs) \in ModelEnumInterfaceNames

\* C17: validate emits M3L-E009 for a field, top-level or nested, of any
\* model, view or interface exactly when its non-empty type is not in the
\* type catalog, is not the name of a defined model, enum or interface and
\* is not a dotted name whose last segment is such a name.
C17_UndefinedTypeIffUnknown ==
    Validated =>
        \A f \in AstFields :
            DiagnosedAt(ValidationErrors, "M3L-E009", f) <=> UndefinedType(f)

(***************************************************************************)
(* Inputs of validate for the strict-mode warnings.  File a holds the      *)
(* element H, a model, a view or an interface, with the foreign key fk     *)
(* and the field x carrying @lookup(path), at the top level or as a        *)
(* sub-field of the object o; the paths have 2 to 5 segments.  H may also  *)
(* hold a field whose line is longer than 80 characters.                   *)
(***************************************************************************)
LongFieldName ==
    "a_field_name_that_is_long_enough_to_pass_the_guideline_of_eighty_characters_per_line"

LookupAttr(path) == <<Attr("lookup", <<StrArg(join_dots(path))>>)>>

LookupHolderFields(path) ==
    { <<FieldLine("x", Some("string"), LookupAttr(path), FALSE)>>,
      <<FieldLine("o", Some("object"), <<>>, FALSE),
        NestedLine("x", "string", Some("string"), LookupAttr(path))>> }

InitLookup ==
    \E holder \in {"model", "view", "interface"} :
    \E path \in LookupPaths :
    \E fields \in LookupHolderFields(path) :
    \E long \in {<<>>, <<FieldLine(LongFieldName, Some("string"), <<>>, FALSE)>>} :
        ResolveInit(<< parse_string(
                            ElementText(holder, "H", <<>>,
                                <<FieldLine("fk", Some("identifier"),
                                    <<Attr("reference", <<StrArg("B")>>)>>,
                                    FALSE)>> \o long \o fields),
                            "a.m3l.md"),
                       parse_string(ElementText("model", "B", <<>>, <<>>),
                                    "b.m3l.md") >>, None)

SpecLookup == InitLookup /\ [][ValidateNext]_vars

Strict == Unwrap(validation).options.strict

WarningCodes ==
    {ValidationWarnings[i].code : i \in 1..Len(ValidationWarnings)}

LookupFields == {f \in AstFields : f.kind = "Lookup" /\ IsSome(f.lookup)}

LongPath(path) ==
    \E segs \in DottedStrings : join_dots(segs) = path /\ Len(segs) > 3

LongChainWarnedAt(f) ==
    \E i \in 1..Len(ValidationWarnings) :
        /\ ValidationWarnings[i].code = "M3L-W004"
        /\ ValidationWarnings[i].file = f.loc.file
        /\ ValidationWarnings[i].line = f.loc.line
        /\ ValidationWarnings[i].message.path = Unwrap(f.lookup).path

\* C18: without strict mode validate emits none of M3L-W001, M3L-W002 and
\* M3L-W004; in strict mode it emits M3L-W004 for exactly the lookup fields
\* whose path has more than 3 segments.
C18_StrictWarnings ==
    Validated =>
        /\ ~Strict => WarningCodes \cap {"M3L-W001", "M3L-W002", "M3L-W004"} = {}
        /\ Strict =>
            \A f \in LookupFields :
                LongChainWarnedAt(f) <=> LongPath(Unwrap(f.lookup).path)


(***************************************************************************)
(* resolve followed by validate on the inputs of the naming rules.  Two    *)
(* runs on the same files differ only in the orders the HashMap and the    *)
(* HashSet of lines 133-161 take, so the runs of one input are the         *)
(* behaviours from one initial state.                                      *)
(***************************************************************************)
SpecRun == InitNames /\ [][ValidateNext]_vars

\* every pair of orders the loop of lines 133-161 can run in
AmbiguityOrders(r) ==
    {o \in Perms(AmbiguousNames(r.name_ns_map))
            \X [AmbiguousNames(r.name_ns_map) ->
                    UNION {Perms(distinct_ns(r.name_ns_map[nm])) :
                           nm \in AmbiguousNames(r.name_ns_map)}] :
        \A nm \in AmbiguousNames(r.name_ns_map) :
            o[2][nm] \in Perms(distinct_ns(r.name_ns_map[nm]))}

DiagnosticSet(diagnostics) == {diagnostics[i] : i \in 1..Len(diagnostics)}

OtherThanAmbiguity(diagnostics) ==
    SelectSeq(diagnostics, LAMBDA e : e.code # "M3L-E008")

ElementKeys(elements) ==
    [i \in 1..Len(elements) |->
        <<elements[i].name, elements[i].source, elements[i].line>>]

InInputOrder(a) ==
    /\ a.sources = [i \in 1..Len(files) |-> files[i].source]
    /\ \A list \in {"models", "enums", "interfaces", "views"} :
          ElementKeys(a[list]) =
              Concat([i \in 1..Len(files) |-> ElementKeys(files[i][list])])

\* the diagnostics of this run and of a run taking the orders o agree
SameDiagnostics(mine, o) ==
    LET other == check_ambiguity(o[1], o[2], rs).errors
    IN /\ DiagnosticSet(mine) = DiagnosticSet(other)
       /\ OtherThanAmbiguity(mine) = OtherThanAmbiguity(other)

(***************************************************************************)
(* C19: two runs of resolve and validate on the same files produce the     *)
(* same set of diagnostics (code, file, line and message, the namespace    *)
(* list of an M3L-E008 included) with the diagnostics other than M3L-E008  *)
(* in the same relative order, and the sources and the element lists of    *)
(* the AST are in input order.  The only step with more than one outcome   *)
(* is the loop of lines 133-161: its outcome is compared with every other  *)
(* outcome it can have.                                                    *)
(***************************************************************************)
C19_ResolveValidateDeterministic ==
    [][/\ pc = "ambiguity" =>
            \A o \in AmbiguityOrders(rs) : SameDiagnostics(rs'.errors, o)
       /\ pc' = "done" => InInputOrder(Unwrap(ast'))]_vars


(***************************************************************************)
(* Inputs of resolve for the project info: one to three files, each with   *)
(* or without a `# Namespace:` line and holding one model, and a project   *)
(* argument that is absent, without a name, or named.                      *)
(***************************************************************************)
ProjectArguments ==
    {None,
     Some([name |-> None, version |-> None]),
     Some([name |-> None, version |-> Some("1.0")]),
     Some([name |-> Some("shop"), version |-> None])}

ProjectSources == <<"a.m3l.md", "b.m3l.md", "z.m3l.md">>

ProjectModels == <<"A", "B", "C">>

InitProject ==
    \E nss \in SeqsUpTo(Namespaces, Len(ProjectSources)) \ {<<>>} :
    \E proj \in ProjectArguments :
        ResolveInit([i \in 1..Len(nss) |->
                        parse_string(NamespaceText(nss[i])
                                        \o <<H2("model", ProjectModels[i], <<>>)>>,
                                     ProjectSources[i])],
                    proj)

SpecProject == InitProject /\ [][ResolveNext]_vars

WithoutProjectName == project = None \/ Unwrap(project).name = None

(***************************************************************************)
(* C20: when resolve is called without a project name, the project name of *)
(* the resolved AST is the namespace of the first input file, and is unset *)
(* when the first file declares no namespace.                              *)
(***************************************************************************)
C20_ProjectNameIsFirstNamespace ==
    (Resolved /\ WithoutProjectName) =>
        Unwrap(ast).project.name = files[1].namespace

\* the first definition of the name in input order
FirstDefinition(name) ==
    CHOOSE d \in DefinitionsNamed(name) :
        \A e \in DefinitionsNamed(name) : ~Before(e, d)

DuplicateNameDiagnostics ==
    {e \in DiagnosticSet(Unwrap(ast).errors) :
        e.code = "M3L-E005" /\ e.message.text = "Duplicate name"}

(***************************************************************************)
(* C21: every M3L-E005 duplicate-name diagnostic is located at a           *)
(* definition of the name other than the first one in input order, and its *)
(* message names the file and line of that first definition, also when the *)
(* name is defined three or more times.                                    *)
(***************************************************************************)
C21_DuplicateNameReferencesFirst ==
    Resolved =>
        \A e \in DuplicateNameDiagnostics :
            /\ \E d \in DefinitionsNamed(e.message.name) :
                  /\ d.file = e.file /\ d.line = e.line
                  /\ d # FirstDefinition(e.message.name)
            /\ e.message.first_file = FirstDefinition(e.message.name).file
            /\ e.message.first_line = FirstDefinition(e.message.name).line

(***************************************************************************)
(* lexer.rs parse_type_and_attrs on the characters of `rest`: RE_TYPE_PART *)
(* is a type name, optional generics and parameters, then an optional `?`  *)
(* (group 4), an optional `[]` (group 5) and an optional `?` (group 6);    *)
(* every optional group takes its text when the text is there.  The inputs *)
(* are a type name T followed by up to MaxSuffix characters.               *)
(***************************************************************************)
MaxSuffix == 4

SuffixChars == {"?", "[", "]", " "}

WordChars == {"T"}

\* group 1: the end of the longest run of word characters from the start
RECURSIVE word_end(_, _)
word_end(rest, pos) ==
    IF pos < Len(rest) /\ At(rest, pos) \in WordChars
    THEN word_end(rest, pos + 1) ELSE pos

StartsAt(rest, pos, text) ==
    /\ pos + Len(text) <= Len(rest)
    /\ Slice(rest, pos, pos + Len(text)) = text

\* groups 4, 5 and 6 of RE_TYPE_PART, matched after the type name
type_part_captures(rest) ==
    LET p4 == word_end(rest, 0)
        q4 == StartsAt(rest, p4, <<"?">>)
        p5 == IF q4 THEN p4 + 1 ELSE p4
        g5 == StartsAt(rest, p5, <<"[", "]">>)
        p6 == IF g5 THEN p5 + 2 ELSE p5
        q6 == StartsAt(rest, p6, <<"?">>)
    IN [matched |-> p4 > 0, q4 |-> q4, g5 |-> g5, q6 |-> q6,
        len |-> IF q6 THEN p6 + 1 ELSE p6]

\* a variant that reads the two question marks the other way round
type_flags_swapped(caps) ==
    IF caps.g5
    THEN [nullable |-> caps.q4, array |-> TRUE, array_item_nullable |-> caps.q6]
    ELSE [nullable |-> caps.q4 \/ caps.q6, array |-> FALSE,
          array_item_nullable |-> FALSE]

\* parse_type_and_attrs, lines 542-553
type_flags(caps) ==
    IF caps.g5
    THEN [nullable |-> caps.q6, array |-> TRUE, array_item_nullable |-> caps.q4]
    ELSE [nullable |-> caps.q4 \/ caps.q6, array |-> FALSE,
          array_item_nullable |-> FALSE]

\* TokenData::default, the three flags
DefaultFlags ==
    [nullable |-> FALSE, array |-> FALSE, array_item_nullable |-> FALSE]

\* parse_type_and_attrs, lines 512-557: the flags of the token data
ParseTypePart ==
    /\ scan.pc = "type"
    /\ scan' = [scan EXCEPT
                  !.pc = "field",
                  !.data = IF type_part_captures(scan.rest).matched
                           THEN type_flags(type_part_captures(scan.rest))
                           ELSE DefaultFlags]
    /\ UNCHANGED <<alphabet, st, n, last, result, resolverVars>>

\* build_field_node, lines 956-958: the flags of the field node
BuildFieldFlags ==
    /\ scan.pc = "field"
    /\ scan' = [scan EXCEPT
                  !.pc = "done",
                  !.field = [nullable |-> scan.data.nullable,
                             array |-> scan.data.array,
                             array_item_nullable |->
                                 scan.data.array_item_nullable]]
    /\ UNCHANGED <<alphabet, st, n, last, result, resolverVars>>

TypePartNext ==
    \/ ParseTypePart
    \/ BuildFieldFlags

InitTypePart ==
    \E suffix \in SeqsUpTo(SuffixChars, MaxSuffix) :
        /\ alphabet = {}
        /\ st = InitParserState("test.m3l.md")
        /\ n = 0
        /\ last = None
        /\ result = None
        /\ scan = [pc |-> "type", rest |-> <<"T">> \o suffix,
                   data |-> DefaultFlags, field |-> DefaultFlags]
        /\ files = <<>>
        /\ project = None
        /\ pc = "scanning"
        /\ rs = <<>>
        /\ ast = None
        /\ validation = None

SpecTypePart == InitTypePart /\ [][TypePartNext]_vars

Flags(nullable, array, array_item_nullable) ==
    [nullable |-> nullable, array |-> array,
     array_item_nullable |-> array_item_nullable]

\* the six forms of the type T and the flags each one stands for
ModifierTable ==
    {<< <<"T">>, Flags(FALSE, FALSE, FALSE) >>,
     << <<"T", "?">>, Flags(TRUE, FALSE, FALSE) >>,
     << <<"T", "[", "]">>, Flags(FALSE, TRUE, FALSE) >>,
     << <<"T", "[", "]", "?">>, Flags(TRUE, TRUE, FALSE) >>,
     << <<"T", "?", "[", "]">>, Flags(FALSE, TRUE, TRUE) >>,
     << <<"T", "?", "[", "]", "?">>, Flags(TRUE, TRUE, TRUE) >>}

(***************************************************************************)
(* C22: the modifier suffix of a field's type decodes into the flags       *)
(* (nullable, array, arrayItemNullable) as T -> (F, F, F), T? -> (T, F, F),*)
(* T[] -> (F, T, F), T[]? -> (T, T, F), T?[] -> (F, T, T) and              *)
(* T?[]? -> (T, T, T); the five modified forms get five distinct triples.  *)
(***************************************************************************)
C22_ModifierSuffixDecoding ==
    scan.pc = "done" =>
        /\ \A row \in ModifierTable : scan.rest = row[1] => scan.field = row[2]
        /\ \A r1, r2 \in ModifierTable :
              (r1[1] # <<"T">> /\ r2[1] # <<"T">>
                  /\ type_flags(type_part_captures(r1[1]))
                        = type_flags(type_part_captures(r2[1])))
              => r1 = r2

\* the field of `T?[]?` is built: nullable array of nullable items
C22_Witness ==
    /\ scan.pc = "done"
    /\ scan.rest = <<"T", "?", "[", "]", "?">>
    /\ scan.field = Flags(TRUE, TRUE, TRUE)

(***************************************************************************)
(* The elements a parser state holds, by bucket of the ParsedFile: those   *)
(* already appended to the bucket, followed by the one being built.  An    *)
(* element is identified by its name and line (an attribute definition,    *)
(* which keeps no line, by its name).                                      *)
(***************************************************************************)
Buckets == {"models", "enums", "interfaces", "views", "attribute_registry"}

StartTokens == {"Model", "Interface", "Enum", "View", "AttributeDef"}

BucketOfToken(token_type) ==
    CASE token_type = "Model" -> "models"
      [] token_type = "Interface" -> "interfaces"
      [] token_type = "Enum" -> "enums"
      [] token_type = "View" -> "views"
      [] token_type = "AttributeDef" -> "attribute_registry"

ElementKey(b, e) ==
    IF b = "attribute_registry" THEN <<e.name>> ELSE <<e.name, e.line>>

KeysOf(s, b) == [i \in 1..Len(s[b]) |-> ElementKey(b, s[b][i])]

PendingKeys(s, b) ==
    LET el == s.current_element
    IN CASE b = "attribute_registry" ->
                IF IsSome(s.current_attr_def)
                THEN <<ElementKey(b, Unwrap(s.current_attr_def))>> ELSE <<>>
         [] b = "enums" ->
                IF el.tag = "Enum" THEN <<ElementKey(b, el.en)>> ELSE <<>>
         [] b = "interfaces" ->
                IF el.tag = "Model" /\ el.model.model_type = "Interface"
                THEN <<ElementKey(b, el.model)>> ELSE <<>>
         [] b = "views" ->
                IF el.tag = "Model" /\ el.model.model_type = "View"
                THEN <<ElementKey(b, el.model)>> ELSE <<>>
         [] b = "models" ->
                IF el.tag = "Model" /\ el.model.model_type = "Model"
                THEN <<ElementKey(b, el.model)>> ELSE <<>>

StartedKeys(s, b) == KeysOf(s, b) \o PendingKeys(s, b)

TokenKey(tok) ==
    IF tok.token_type = "AttributeDef" THEN <<Unwrap(tok.data.name)>>
    ELSE <<Unwrap(tok.data.name), tok.line>>

(***************************************************************************)
(* C23: every element-start token (Model, Interface, Enum, View,           *)
(* AttributeDef) produces exactly one entry of the matching bucket of the  *)
(* ParsedFile.  Step by step: an element-start token appends the element   *)
(* being built to its bucket and begins one element of the token's bucket; *)
(* any other token leaves the buckets and the element being built in       *)
(* place; the end of input appends the element being built.  So each       *)
(* bucket of the result lists its start tokens once each, in token order.  *)
(***************************************************************************)
C23_EachStartTokenYieldsOneEntry ==
    [][/\ n' = n + 1 =>
            LET tok == lex(Unwrap(last'), n')
            IN \A b \in Buckets :
                  IF tok.token_type \in StartTokens
                  THEN /\ KeysOf(st', b) = StartedKeys(st, b)
                       /\ StartedKeys(st', b) =
                             IF b = BucketOfToken(tok.token_type)
                             THEN Append(StartedKeys(st, b), TokenKey(tok))
                             ELSE StartedKeys(st, b)
                  ELSE /\ KeysOf(st', b) = KeysOf(st, b)
                       /\ StartedKeys(st', b) = StartedKeys(st, b)
       /\ (result = None /\ result' # None) =>
            \A b \in Buckets :
                KeysOf(Unwrap(result'), b) = StartedKeys(st, b)]_vars

\* a parsed text of two models and an attribute definition
C23_Witness ==
    /\ IsSome(result)
    /\ Len(Unwrap(result).models) = 2
    /\ Unwrap(result).models[1].line < Unwrap(result).models[2].line
    /\ Len(Unwrap(result).attribute_registry) = 1

(***************************************************************************)
(* parse_string on a given text: `scan.text` is the text as a sequence of  *)
(* lines and `scan.pos` the number of lines whose tokens parse_tokens has  *)
(* processed, so that the tokens seen so far are those of the lines        *)
(* 1..scan.pos.                                                            *)
(***************************************************************************)
\* parse_tokens, lines 77-79: process_token on the next token
ProcessToken ==
    /\ scan.pc = "tokens"
    /\ scan.pos < Len(scan.text)
    /\ st' = process_token(lex(scan.text[scan.pos + 1], scan.pos + 1), st)
    /\ scan' = [scan EXCEPT !.pos = @ + 1]
    /\ UNCHANGED <<alphabet, n, last, result, resolverVars>>

\* parse_tokens, lines 81-92: finalize_element, then the ParsedFile
FinishTokens ==
    /\ scan.pc = "tokens"
    /\ scan.pos = Len(scan.text)
    /\ st' = finalize_element(st)
    /\ result' = Some(ParsedFileOf(finalize_element(st)))
    /\ scan' = [scan EXCEPT !.pc = "parsed"]
    /\ UNCHANGED <<alphabet, n, last, resolverVars>>

TextNext ==
    \/ ProcessToken
    \/ FinishTokens

TextInit(texts) ==
    \E text \in texts :
        /\ alphabet = {}
        /\ st = InitParserState("test.m3l.md")
        /\ n = 0
        /\ last = None
        /\ result = None
        /\ scan = [pc |-> "tokens", text |-> text, pos |-> 0]
        /\ files = <<>>
        /\ project = None
        /\ pc = "scanning"
        /\ rs = <<>>
        /\ ast = None
        /\ validation = None

(***************************************************************************)
(* Texts around the `### Source` section of a view: up to MaxText lines    *)
(* among the headings of a view and of a model, `### Source`, the kind     *)
(* section `### Lookup`, the field lines from, where and id, a directive   *)
(* line and a nested item.                                                 *)
(***************************************************************************)
MaxText == 5

SourceLines ==
    { H2("view", "Report", <<>>), H2("model", "User", <<>>),
      H3("Source", FALSE), H3("Lookup", FALSE),
      FieldLine("from", Some("Orders"), <<>>, FALSE),
      FieldLine("where", Some("paid"), <<>>, FALSE),
      FieldLine("id", Some("identifier"), <<>>, FALSE),
      DirectiveLine("index"),
      NestedLine("from", "Users", Some("Users"), <<>>) }

SpecSource == TextInit(SeqsUpTo(SourceLines, MaxText)) /\ [][TextNext]_vars

\* the lines processed so far
Seen == SubSeq(scan.text, 1, scan.pos)

LastWhere(P(_)) ==
    LET hits == {i \in 1..scan.pos : P(scan.text[i])}
    IN IF hits = {} THEN 0 ELSE CHOOSE i \in hits : \A j \in hits : j <= i

\* the line of the heading (## or ###) the next line stands under, 0 if none
HeadingAbove == LastWhere(LAMBDA line : line.form \in {"h2", "h3"})

ElementAbove == LastWhere(LAMBDA line : line.form = "h2")

\* the next line stands in a `### Source` section of a view
InSourceOfView ==
    /\ HeadingAbove > 0 /\ ElementAbove > 0
    /\ scan.text[HeadingAbove] = H3("Source", FALSE)
    /\ scan.text[ElementAbove].type = "view"

IsFieldLine(line) == line.form = "field" /\ ~line.directive

SourceNames == {"from", "where", "order_by", "group_by", "join"}

\* a field line of another name was seen since the section began
OtherFieldSeen ==
    \E i \in (HeadingAbove + 1)..scan.pos :
        IsFieldLine(scan.text[i]) /\ scan.text[i].name \notin SourceNames

CurrentView == st.current_element.model

SourceSlot(def, name) ==
    CASE name = "from" -> def.from
      [] name = "where" -> def.where_clause
      [] name = "order_by" -> def.order_by
      [] name = "group_by" -> def.group_by

(***************************************************************************)
(* C24: within one `### Source` section of a view, a field line named      *)
(* from, where, order_by, group_by or join is consumed into sourceDef and  *)
(* adds no field as long as no field line of another name came before it   *)
(* in the section; the first field line of another name and every field    *)
(* line after it (whatever its name) is appended to the view's fields and  *)
(* leaves sourceDef unchanged.                                             *)
(***************************************************************************)
C24_SourceDirectivesUntilFirstField ==
    [][(scan.pc = "tokens" /\ scan'.pos = scan.pos + 1 /\ InSourceOfView
            /\ IsFieldLine(scan.text[scan.pos + 1])) =>
        LET line == scan.text[scan.pos + 1]
            before == CurrentView
            after == st'.current_element.model
        IN IF line.name \in SourceNames /\ ~OtherFieldSeen
           THEN /\ after.fields = before.fields
                /\ IsSome(after.source_def)
                /\ SourceSlot(Unwrap(after.source_def), line.name) = line.type_name
           ELSE /\ Len(after.fields) = Len(before.fields) + 1
                /\ SubSeq(after.fields, 1, Len(before.fields)) = before.fields
                /\ after.fields[Len(after.fields)].name = line.name
                /\ after.fields[Len(after.fields)].loc.line = scan.pos + 1
                /\ after.source_def = before.source_def]_vars

\* a parsed view whose Source section gave both sourceDef.from and a field
\* named from
C24_Witness ==
    /\ IsSome(result)
    /\ Len(Unwrap(result).views) = 1
    /\ IsSome(Unwrap(result).views[1].source_def)
    /\ Unwrap(Unwrap(result).views[1].source_def).from = Some("Orders")
    /\ \E i \in 1..Len(Unwrap(result).views[1].fields) :
          Unwrap(result).views[1].fields[i].name = "from"
    /\ Seen = << H2("view", "Report", <<>>), H3("Source", FALSE),
                 FieldLine("from", Some("Orders"), <<>>, FALSE),
                 FieldLine("id", Some("identifier"), <<>>, FALSE),
                 FieldLine("from", Some("Orders"), <<>>, FALSE) >>

(***************************************************************************)
(* Texts around the kind sections: up to MaxText lines among the headings  *)
(* of a model, a view, an enum and an attribute definition, the kind       *)
(* sections `### Lookup` and `### Rollup`, a plain field line and a field  *)
(* line with @computed.                                                    *)
(***************************************************************************)
KindScopeLines ==
    { H2("model", "User", <<>>), H2("view", "Report", <<>>),
      H2("enum", "Status", <<>>), H2("attribute", "flag", <<>>),
      H3("Lookup", FALSE), H3("Rollup", FALSE),
      FieldLine("id", Some("identifier"), <<>>, FALSE),
      FieldLine("total", Some("decimal"),
                <<Attr("computed", <<StrArg("price * quantity")>>)>>, FALSE) }

SpecKindScope ==
    TextInit(SeqsUpTo(KindScopeLines, MaxText)) /\ [][TextNext]_vars

\* the models, views and interfaces built so far, the current one included
ElementsSoFar ==
    {st.models[i] : i \in 1..Len(st.models)}
        \cup {st.views[i] : i \in 1..Len(st.views)}
        \cup {st.interfaces[i] : i \in 1..Len(st.interfaces)}
        \cup (IF st.current_element.tag = "Model"
              THEN {st.current_element.model} ELSE {})

KindAttributes == {"lookup", "rollup", "computed", "computed_raw"}

CarriesKindAttribute(f) ==
    \E i \in 1..Len(f.attributes) : f.attributes[i].name \in KindAttributes

IsKindSection(line) == line.form = "h3" /\ line.name \in KIND_SECTIONS

\* a kind section stands between the heading of the element and the field
KindSectionBetween(el, f) ==
    \E i \in (el.line + 1)..(f.loc.line - 1) : IsKindSection(scan.text[i])

KindSectionBefore(line) == \E i \in 1..(line - 1) : IsKindSection(scan.text[i])

(***************************************************************************)
(* C25: after any token sequence, a field that carries none of @lookup,    *)
(* @rollup, @computed, @computed_raw and has no kind-changing section      *)
(* between the heading of its own element and itself has kind stored,      *)
(* whatever kind sections stand in earlier elements or before the first    *)
(* element.                                                                *)
(***************************************************************************)
C25_KindSectionScopedToElement ==
    \A el \in ElementsSoFar : \A f \in WithNested(el.fields) :
        (~CarriesKindAttribute(f) /\ ~KindSectionBetween(el, f))
            => f.kind = "Stored"

\* a parsed text where a stored field of the second model follows a kind
\* section of the first model
C25_Witness ==
    /\ IsSome(result)
    /\ Len(Unwrap(result).models) = 2
    /\ \E i \in 1..Len(Unwrap(result).models[1].fields) :
          Unwrap(result).models[1].fields[i].kind = "Lookup"
    /\ \E i \in 1..Len(Unwrap(result).models[2].fields) :
          LET f == Unwrap(result).models[2].fields[i]
          IN /\ f.kind = "Stored"
             /\ KindSectionBefore(Unwrap(result).models[2].line)

\* model k inherits only P, P inherits only G, P declares the name with
\* @override, G declares it and model k does not
OverrideAboveCase(k, name) ==
    LET c == InputModels[k]
    IN /\ Len(c.inherits) = 1
       /\ IsSome(Referent(c.inherits[1]))
       /\ LET p == Unwrap(Referent(c.inherits[1]))
          IN /\ Len(p.inherits) = 1
             /\ IsSome(Referent(p.inherits[1]))
             /\ p.inherits[1] # p.name
             /\ name \in OverriddenNames(p)
             /\ FieldsNamed(Unwrap(Referent(p.inherits[1])).fields, name) # <<>>
             /\ FieldsNamed(c.fields, name) = <<>>

GrandparentOf(k) ==
    Unwrap(Referent(Unwrap(Referent(InputModels[k].inherits[1])).inherits[1]))

OrderNames == <<"A", "B", "C">>

OrderInherits ==
    {t \in SeqsUpTo({"A", "B", "C"}, 2) \X SeqsUpTo({"A", "B", "C"}, 2)
                \X SeqsUpTo({"A", "B", "C"}, 2) :
        /\ Len(t[1]) + Len(t[2]) + Len(t[3]) <= MaxParents
        /\ LET parents(i) == {t[i][j] : j \in 1..Len(t[i])}
               idx(nm) == CHOOSE i \in 1..3 : OrderNames[i] = nm
               up1(i) == {idx(nm) : nm \in parents(i)}
               up2(i) == up1(i) \cup UNION {up1(j) : j \in up1(i)}
               up3(i) == up2(i) \cup UNION {up1(j) : j \in up2(i)}
           IN \A i \in 1..3 : i \notin up3(i)}

OrderText(inh, fields, order) ==
    Concat([k \in 1..Len(order) |->
              ElementText("model", OrderNames[order[k]], inh[order[k]],
                          fields[order[k]])])

InitOrder ==
    \E inh \in OrderInherits :
    \E fields \in [1..3 -> DiamondFields] :
    \E order \in Perms({1, 2, 3}) :
    \E cut \in {1, 3} :
        ResolveInit(<< parse_string(OrderText(inh, fields,
                                              SubSeq(order, 1, cut)),
                                    "a.m3l.md"),
                       parse_string(OrderText(inh, fields,
                                              SubSeq(order, cut + 1, 3)),
                                    "b.m3l.md") >>,
                    None)

SpecOrder == InitOrder /\ [][ResolveNext]_vars

SortedByName(nodes) ==
    Concat([k \in 1..Len(OrderNames) |->
              SelectSeq(nodes, LAMBDA node : node.name = OrderNames[k])])

\* the same parsed definitions, supplied in one file in the order A, B, C
InNameOrder ==
    << [files[1] EXCEPT !.models = SortedByName(InputModels)],
       [files[2] EXCEPT !.models = <<>>] >>

FieldsAfterInheritance(fs) ==
    LET r == resolve_all_inheritance(1,
                build_name_maps(fs, collect(fs, InitResolveState)))
    IN [i \in 1..Len(r.all_models) |->
            [name |-> r.all_models[i].name, fields |-> r.all_models[i].fields]]

UniqueTopLevelNames ==
    \A d1, d2 \in InputDefinitions : d1.name = d2.name => d1 = d2

ParentBeforeChild(a) ==
    \E i, j \in 1..Len(a.models) :
        i < j /\ InSeq(a.models[i].name, a.models[j].inherits)

ChildBeforeParent(a) ==
    \E i, j \in 1..Len(a.models) :
        i < j /\ InSeq(a.models[j].name, a.models[i].inherits)

(***************************************************************************)
(* C27: when the top-level names are unique and the inherits relation is   *)
(* acyclic, the resolved field list of every model does not depend on the  *)
(* order of the definitions: it is the list resolve computes when the same *)
(* definitions are supplied in the order A, B, C.                          *)
(***************************************************************************)
C27_FieldsIndependentOfDefinitionOrder ==
    (Resolved /\ UniqueTopLevelNames
        /\ \A k \in 1..Len(InputModels) : AcyclicInherits(InputModels[k])) =>
        \A k \in 1..Len(Unwrap(ast).models) :
            \E i \in 1..Len(FieldsAfterInheritance(InNameOrder)) :
                FieldsAfterInheritance(InNameOrder)[i] =
                    [name |-> Unwrap(ast).models[k].name,
                     fields |-> Unwrap(ast).models[k].fields]

\* a resolved input where a child is defined before its parent, the parent
\* before its own parent, and the child inherited a field of each
C27_Witness ==
    /\ Resolved
    /\ Len(Unwrap(ast).models) = 3
    /\ ChildBeforeParent(Unwrap(ast))
    /\ ~ParentBeforeChild(Unwrap(ast))
    /\ Len(Unwrap(ast).models[1].fields) = 3


(***************************************************************************)
(* Inputs of validate for the two modes.  File a holds the model H, whose  *)
(* parent may be undefined (M3L-E007, so that resolve returns errors),     *)
(* with the foreign key fk, with or without @reference, up to two more     *)
(* fields and an optional Relations section; file b holds the model B and  *)
(* the attribute definition `level` of type number and range [1, 10].      *)
(* The further fields trigger one diagnostic of validate each: a line      *)
(* longer than 80 characters (M3L-W001), a lookup chain of five hops       *)
(* (M3L-W004, and M3L-E002 when fk has no @reference), a datetime          *)
(* (M3L-W003), an undefined type (M3L-E009), an argument of `level`        *)
(* outside the range (M3L-W006) or of the wrong type (M3L-W005).  The      *)
(* relation names fk (M3L-E010 when fk has no @reference) and may carry a  *)
(* nested `from:` key.                                                     *)
(***************************************************************************)
StrictFields ==
    { FieldLine(LongFieldName, Some("string"), <<>>, FALSE),
      FieldLine("x", Some("string"),
                LookupAttr(<<"fk", "B", "C", "D", "name">>), FALSE),
      FieldLine("d", Some("datetime"), <<>>, FALSE),
      FieldLine("u", Some("Unknown"), <<>>, FALSE),
      FieldLine("r", Some("integer"), <<Attr("level", <<NumArg("11")>>)>>, FALSE),
      FieldLine("s", Some("integer"), <<Attr("level", <<StrArg("high")>>)>>,
                FALSE) }

StrictRelations ==
    { <<>>,
      <<H3("Relations", FALSE), ItemLine("b", "> B via fk")>>,
      <<H3("Relations", FALSE), ItemLine("b", "> B"),
        NestedLine("from", "fk", Some("fk"), <<>>)>>,
      <<H3("Relations", FALSE), ItemLine("b", "< B via fk")>> }

LevelDefinition ==
    << H2("attribute", "level", <<>>),
       FieldLine("type", Some("number"), <<>>, FALSE),
       ItemLine("range", "[1, 10]") >>

InitStrict ==
    \E inherits \in {<<>>, <<"Z">>} :
    \E reference \in {<<>>, <<Attr("reference", <<StrArg("B")>>)>>} :
    \E fields \in SeqsUpTo(StrictFields, 2) :
    \E relations \in StrictRelations :
        ResolveInit(<< parse_string(
                            ElementText("model", "H", inherits,
                                <<FieldLine("fk", Some("identifier"),
                                            reference, FALSE)>>
                                \o fields \o relations),
                            "a.m3l.md"),
                       parse_string(ElementText("model", "B", <<>>, <<>>)
                                        \o LevelDefinition,
                                    "b.m3l.md") >>, None)

SpecStrict == InitStrict /\ [][ValidateNext]_vars

IsPrefix(s, t) == Len(s) <= Len(t) /\ SubSeq(t, 1, Len(s)) = s

StrictOnlyCodes == {"M3L-W001", "M3L-W002", "M3L-W004"}

\* what validate returns on the resolved AST in each mode
InStrictMode == validate(Unwrap(ast), [strict |-> TRUE])
InDefaultMode == validate(Unwrap(ast), [strict |-> FALSE])

\* C28: validate leaves the AST as it is; the errors it returns start with
\* the errors of the AST, in their order; the errors of the two modes are
\* equal; the warnings of the default mode are a prefix of the warnings of
\* strict mode, and the further warnings of strict mode all have the code
\* M3L-W001, M3L-W002 or M3L-W004.
C28_StrictModeOnlyAddsWarnings ==
    [][ (validation = None /\ IsSome(validation')) =>
            /\ ast' = ast
            /\ Unwrap(validation').result =
                    (IF Unwrap(validation').options.strict
                     THEN InStrictMode ELSE InDefaultMode)
            /\ IsPrefix(Unwrap(ast).errors, Unwrap(validation').result.errors)
            /\ InStrictMode.errors = InDefaultMode.errors
            /\ IsPrefix(InDefaultMode.warnings, InStrictMode.warnings)
            /\ \A i \in (Len(InDefaultMode.warnings) + 1)
                            ..Len(InStrictMode.warnings) :
                    InStrictMode.warnings[i].code \in StrictOnlyCodes ]_vars

C28_Witness ==
    /\ Validated
    /\ Strict
    /\ Unwrap(ast).errors # <<>>
    /\ Len(ValidationErrors) > Len(Unwrap(ast).errors)
    /\ InDefaultMode.warnings # <<>>
    /\ Len(ValidationWarnings) > Len(InDefaultMode.warnings)


(***************************************************************************)
(* Texts around nested items and blockquotes: up to MaxText lines among    *)
(* the headings of a model, a second model, an enum and an attribute       *)
(* definition, the section `### Relations`, a field of type object, a      *)
(* nested item and a blockquote.                                           *)
(***************************************************************************)
NestedLines ==
    { H2("model", "A", <<>>), H2("model", "B", <<>>),
      H2("enum", "Status", <<>>), H2("attribute", "flag", <<>>),
      H3("Relations", FALSE),
      FieldLine("x", Some("object"), <<>>, FALSE),
      NestedLine("k", "string", Some("string"), <<>>),
      BlockquoteLine("note") }

SpecNested == TextInit(SeqsUpTo(NestedLines, MaxText)) /\ [][TextNext]_vars

\* the token of the line the next step processes
NextToken == lex(scan.text[scan.pos + 1], scan.pos + 1)

ProcessesToken == scan.pc = "tokens" /\ scan'.pc = "tokens" /\ scan' # scan

\* C29: a NestedItem or Blockquote token changes no element that was
\* already finalized (every bucket of the parser state stays as it was, so
\* no field of such an element is modified), and every element-start token
\* leaves the last-field pointer and the current section empty and no
\* attribute definition pending but the one it starts; a nested item or a
\* blockquote below a new `##` heading that has no field yet therefore
\* reaches no field of the element before it.
C29_NestedAndBlockquoteStayInElement ==
    [][ ProcessesToken =>
            /\ NextToken.token_type \in {"NestedItem", "Blockquote"} =>
                    /\ \A b \in Buckets : st'[b] = st[b]
                    /\ (/\ st.current_element.tag = "Model"
                        /\ st.current_element.model.fields = <<>>)
                            => st'.current_element.model.fields = <<>>
            /\ NextToken.token_type \in StartTokens =>
                    /\ st'.last_field_idx = None
                    /\ st'.current_section = None
                    /\ IF NextToken.token_type = "AttributeDef"
                       THEN /\ IsSome(st'.current_attr_def)
                            /\ Unwrap(st'.current_attr_def).fields = <<>>
                            /\ Unwrap(st'.current_attr_def).description = None
                       ELSE st'.current_attr_def = None ]_vars

\* the field x of A, the heading of B, then a nested item and a blockquote:
\* x is as the field line built it and the blockquote describes B
C29_Witness ==
    /\ scan.pc = "tokens"
    /\ Seen = << H2("model", "A", <<>>),
                 FieldLine("x", Some("object"), <<>>, FALSE),
                 H2("model", "B", <<>>),
                 NestedLine("k", "string", Some("string"), <<>>),
                 BlockquoteLine("note") >>
    /\ Len(st.models) = 1
    /\ st.models[1].fields[1].fields = None
    /\ st.models[1].fields[1].description = None
    /\ st.current_element.model.description = Some("note")
    /\ st.current_element.model.fields = <<>>


(***************************************************************************)
(* Inputs of resolve and validate for the diagnostics: the inputs of the   *)
(* naming rules, of the diamond imports, of the rollup, type and lookup    *)
(* checks and of the two modes, and a view whose `### Source` section      *)
(* names a defined or an undefined model.                                  *)
(***************************************************************************)
InitViewSource ==
    \E from \in {"B", "Missing"} :
    \E fields \in SeqsUpTo({FieldLine("id", Some("identifier"), <<>>, FALSE),
                            FieldLine("d", Some("datetime"), <<>>, FALSE)}, 2) :
        ResolveInit(<< parse_string(
                            <<H2("view", "V", <<>>), H3("Source", FALSE),
                              FieldLine("from", Some(from), <<>>, FALSE)>>
                                \o fields,
                            "a.m3l.md"),
                       parse_string(ElementText("model", "B", <<>>, <<>>),
                                    "b.m3l.md") >>, None)

InitDiagnostics ==
    \/ InitStrict
    \/ InitNames
    \/ InitDiamondImports
    \/ InitRollup
    \/ InitTypes
    \/ InitLookup
    \/ InitViewSource

SpecDiagnostics == InitDiagnostics /\ [][ValidateNext]_vars

ERROR_CODES ==
    { "M3L-E001", "M3L-E002", "M3L-E003", "M3L-E004", "M3L-E005", "M3L-E006",
      "M3L-E007", "M3L-E008", "M3L-E009", "M3L-E010" }

WARNING_CODES ==
    { "M3L-W001", "M3L-W002", "M3L-W003", "M3L-W004", "M3L-W005", "M3L-W006" }

AllErrors(diagnostics) ==
    \A i \in 1..Len(diagnostics) :
        diagnostics[i].severity = "error" /\ diagnostics[i].code \in ERROR_CODES

AllWarnings(diagnostics) ==
    \A i \in 1..Len(diagnostics) :
        /\ diagnostics[i].severity = "warning"
        /\ diagnostics[i].code \in WARNING_CODES

\* C30: in what resolve returns and in what validate returns, every entry
\* of errors has severity error and a code M3L-E001..M3L-E010 and every
\* entry of warnings has severity warning and a code M3L-W001..M3L-W006;
\* resolve returns no warning.
C30_SeverityAndCodeByList ==
    /\ IsSome(ast) =>
            /\ AllErrors(Unwrap(ast).errors)
            /\ Unwrap(ast).warnings = <<>>
    /\ Validated =>
            /\ AllErrors(ValidationErrors)
            /\ AllWarnings(ValidationWarnings)

C30_Witness ==
    /\ Validated
    /\ Unwrap(ast).errors # <<>>
    /\ Len(ValidationErrors) > Len(Unwrap(ast).errors)
    /\ \E i \in 1..Len(ValidationWarnings) :
            ValidationWarnings[i].code = "M3L-W004"
    /\ \E i \in 1..Len(ValidationWarnings) :
            ValidationWarnings[i].code = "M3L-W006"

=============================================================================
